---- MODULE Spec2Model ----
(***************************************************************************)
(* Model of the text-mode control channel of dosbox-staging-ANSI-server:   *)
(* the deferred TYPE action sink (queued_type_action_sink.cpp), the        *)
(* command dispatcher (command_processor.cpp) and the line protocol        *)
(* server (server.cpp), wired as in textmode_server.cpp.                   *)
(*                                                                         *)
(* Every handler of the program is an operator that maps a state record    *)
(* (the program's fields plus the event log) to the state record after    *)
(* the call, so that a handler which calls another one is the composition *)
(* of the two.  The actions apply one whole handler to the variables.      *)
(***************************************************************************)
EXTENDS Integers, Sequences, FiniteSets, TLC

VARIABLES
    m_pending,               \* QueuedTypeActionSink::m_pending (FIFO of PendingRequest)
    m_next_id,               \* QueuedTypeActionSink::m_next_id
    m_close_after_response,  \* QueuedTypeActionSink / TextModeServer::m_close_after_response
    m_token_frame_spacing,   \* QueuedTypeActionSink::m_token_frame_spacing
    m_requests,              \* CommandProcessor::m_requests
    m_success,               \* CommandProcessor::m_success
    m_failures,              \* CommandProcessor::m_failures
    m_exit_requested,        \* CommandProcessor::m_exit_requested
    m_macro_interkey_frames, \* CommandProcessor::m_macro_interkey_frames
    m_provider,              \* CommandProcessor::m_provider holds a frame provider
    m_type_sink,             \* CommandProcessor::m_type_sink is the queued sink
    m_type_sink_requires_client, \* CommandProcessor::m_type_sink_requires_client
    m_queue_non_frame_commands,  \* CommandProcessor::m_queue_non_frame_commands
    m_allow_deferred_frames, \* CommandProcessor::m_allow_deferred_frames
    g_keyboard_processor,    \* KeyboardCommandProcessor: m_pressed, m_commands, m_success, m_failures
    m_sessions,              \* TextModeServer::m_sessions: client -> receive buffer
    m_clients,               \* SdlNetBackend::m_clients: the open sockets
    now,                     \* reading of std::chrono::steady_clock, in milliseconds
    log,                     \* history of the calls made to the collaborators
    polls                    \* parity of the number of calls of the sink's Poll

vars == <<m_pending, m_next_id, m_close_after_response, m_token_frame_spacing,
          m_requests, m_success, m_failures, m_exit_requested, m_macro_interkey_frames,
          m_provider, m_type_sink, m_type_sink_requires_client, m_queue_non_frame_commands,
          m_allow_deferred_frames, g_keyboard_processor, m_sessions, m_clients, now, log,
          polls>>

(* The settings of the dispatcher that choose the sink of a TYPE plan. *)
sink_settings == <<m_type_sink, m_type_sink_requires_client, m_queue_non_frame_commands,
                   m_allow_deferred_frames>>

(* KeyboardCommandProcessor(sink): no key is held and nothing is counted. *)
NewKeyboard ==
    [m_pressed |-> [k \in {} |-> ""], m_commands |-> 0, m_success |-> 0, m_failures |-> 0]

(* Configure: SetTypeActionSink(g_queued_sink), SetTypeSinkRequiresClient(true), *)
(* SetQueueNonFrameCommands(true), SetAllowDeferredFrames(true).            *)
Configured ==
    /\ m_type_sink = TRUE
    /\ m_type_sink_requires_client = TRUE
    /\ m_queue_non_frame_commands = TRUE
    /\ m_allow_deferred_frames = TRUE


----------------------------------------------------------------------------
(* Bounds of the model. *)

NumClients == 2      \* client handles 1..NumClients (0 is "no client")
MaxRequests == 2     \* Execute calls in one run
MaxActions == 3      \* plan actions handed directly to the sink in one run
MaxFairActions == 2  \* the same, in a run under fairness
MaxDelay == 1        \* largest DelayMs / DelayFrames value in such a plan
MaxSpacing == 2      \* largest inter_token_frame_delay
MaxInterkey == 2     \* largest macro_interkey_frames
MaxTypeTokens == 3   \* tokens of a TYPE line handed directly to the dispatcher
MaxServiceSpacing == 1  \* largest inter_token_frame_delay of the whole service
MaxLines == 2        \* command lines received in one run of the service
MaxConnects == 2     \* connections accepted in one run of the service
MaxEvents == 1       \* backend events handled in one tick
MaxKeyboardCommands == 3  \* calls made on the keyboard processor in one run
MaxDispatched == 2   \* command lines handed directly to the dispatcher in one run
MaxConsumed == 2     \* calls of ConsumeExitRequest made directly in one run
MaxFragments == 3    \* Data events that cut the stream of bytes in one run
MaxCompileTokens == 2   \* tokens of a TYPE line handed to the compiler
MaxTimedActions == 3  \* plan actions queued in a run with numbered Poll calls
MaxTimedFrames == 2   \* largest DelayFrames of such a plan

Clients == 1..NumClients

----------------------------------------------------------------------------
(* TypeAction and TypeCommandPlan (command_processor.h). *)

KeyKinds == {"Press", "Down", "Up"}

make_key_action(kind, key) ==
    [kind |-> kind, key |-> key, delay_ms |-> 0, frames |-> 0]

make_delay_ms_action(delay) ==
    [kind |-> "DelayMs", key |-> "", delay_ms |-> delay, frames |-> 0]

make_delay_frames_action(frames) ==
    [kind |-> "DelayFrames", key |-> "", delay_ms |-> 0, frames |-> frames]

is_delay_action(kind) == kind = "DelayFrames" \/ kind = "DelayMs"

IsKeyAction(a) == a.kind \in KeyKinds

Max(a, b) == IF a >= b THEN a ELSE b

----------------------------------------------------------------------------
(* Text.  A std::string is the sequence of its characters, each a string   *)
(* of length one.                                                          *)

Lower == <<"a", "b", "c", "d", "e", "f", "g", "h", "i", "j", "k", "l", "m",
           "n", "o", "p", "q", "r", "s", "t", "u", "v", "w", "x", "y", "z">>

Upper == <<"A", "B", "C", "D", "E", "F", "G", "H", "I", "J", "K", "L", "M",
           "N", "O", "P", "Q", "R", "S", "T", "U", "V", "W", "X", "Y", "Z">>

Digits == <<"0", "1", "2", "3", "4", "5", "6", "7", "8", "9">>

Range(seq) == {seq[i] : i \in DOMAIN seq}

IndexIn(seq, x) == CHOOSE i \in DOMAIN seq : seq[i] = x

isupper(ch) == ch \in Range(Upper)

isalpha(ch) == ch \in Range(Upper) \cup Range(Lower)

isdigit(ch) == ch \in Range(Digits)

isspace(ch) == ch \in {" ", "\t", "\n", "\r", "\f"}

toupper(ch) == IF ch \in Range(Lower) THEN Upper[IndexIn(Lower, ch)] ELSE ch

(* The text of a string literal made of letters, digits and spaces only.   *)
RECURSIVE Text(_)
Text(str) == IF str = <<>> THEN "" ELSE Head(str) \o Text(Tail(str))

SetMin(S) == CHOOSE x \in S : \A y \in S : x <= y

SetMax(S) == CHOOSE x \in S : \A y \in S : y <= x

(* std::string::find(ch): the first place of ch, 0 for npos. *)
find(str, ch) ==
    LET at == {i \in DOMAIN str : str[i] = ch}
    IN IF at = {} THEN 0 ELSE SetMin(at)

ends_with(value, suffix) ==
    /\ Len(value) >= Len(suffix)
    /\ SubSeq(value, Len(value) - Len(suffix) + 1, Len(value)) = suffix

DropLast(str, n) == SubSeq(str, 1, Len(str) - n)

trim(str) ==
    LET keep == {i \in DOMAIN str : str[i] \notin {" ", "\t", "\r", "\n"}}
    IN IF keep = {} THEN <<>> ELSE SubSeq(str, SetMin(keep), SetMax(keep))

to_upper(str) == [i \in DOMAIN str |-> toupper(str[i])]

(* Decimal numerals.  std::stoul reads an unsigned long of 64 bits and     *)
(* throws when the numeral is larger; the numerals are compared as digit   *)
(* strings.                                                                *)
ULONG_MAX == <<"1", "8", "4", "4", "6", "7", "4", "4", "0", "7",
               "3", "7", "0", "9", "5", "5", "1", "6", "1", "5">>

LLONG_MAX == <<"9", "2", "2", "3", "3", "7", "2", "0", "3", "6",
               "8", "5", "4", "7", "7", "5", "8", "0", "7">>

UINT32_MAX == <<"4", "2", "9", "4", "9", "6", "7", "2", "9", "5">>

DigitValue(ch) == IndexIn(Digits, ch) - 1

RECURSIVE StripZeros(_)
StripZeros(digits) ==
    IF digits # <<>> /\ Head(digits) = "0" THEN StripZeros(Tail(digits)) ELSE digits

(* a <= b for two numerals without leading zeros *)
RECURSIVE DecLeq(_, _)
DecLeq(a, b) ==
    IF Len(a) # Len(b) THEN Len(a) < Len(b)
    ELSE IF a = <<>> THEN TRUE
    ELSE IF Head(a) # Head(b) THEN DigitValue(Head(a)) < DigitValue(Head(b))
    ELSE DecLeq(Tail(a), Tail(b))

RECURSIVE DecValue(_)
DecValue(digits) ==
    IF digits = <<>> THEN 0
    ELSE 10 * DecValue(DropLast(digits, 1)) + DigitValue(digits[Len(digits)])

(* ULONG_MAX - a, digit by digit (no borrow arises: every digit of the     *)
(* difference is taken from a numeral padded to the same length).          *)
RECURSIVE DecBelowMax(_, _, _)
DecBelowMax(a, top, borrow) ==
    IF top = <<>> THEN <<>>
    ELSE LET x == IF a = <<>> THEN 0 ELSE DigitValue(a[Len(a)])
             t == DigitValue(top[Len(top)]) - borrow
             d == IF t >= x THEN t - x ELSE t + 10 - x
             rest_a == IF a = <<>> THEN <<>> ELSE DropLast(a, 1)
         IN Append(DecBelowMax(rest_a, DropLast(top, 1), IF t >= x THEN 0 ELSE 1),
                   Digits[d + 1])

(* std::stoul(digits): the numeral, or the out_of_range exception. *)
stoul(digits) ==
    LET numeral == StripZeros(digits)
    IN [thrown |-> ~DecLeq(numeral, ULONG_MAX), value |-> numeral]

(* std::chrono::milliseconds(value): the unsigned long becomes the signed  *)
(* 64 bit count, so a value above LLONG_MAX wraps to value - 2^64.         *)
milliseconds(value) ==
    IF DecLeq(value, LLONG_MAX) THEN DecValue(value)
    ELSE 0 - (DecValue(StripZeros(DecBelowMax(value, ULONG_MAX, 0))) + 1)

all_digits(digits) == \A i \in DOMAIN digits : isdigit(digits[i])

----------------------------------------------------------------------------
(* The state record the handlers work on.  first, send_fail and frame_ok   *)
(* are not program state: first marks the first event of a handler call,   *)
(* send_fail is the set of clients whose socket refuses a send during this *)
(* call and frame_ok is the answer of the frame provider during it.        *)

St(send_fail, frame_ok) ==
    [pending        |-> m_pending,
     next_id        |-> m_next_id,
     requests       |-> m_requests,
     success        |-> m_success,
     failures       |-> m_failures,
     exit_requested |-> m_exit_requested,
     keyboard       |-> g_keyboard_processor,
     sessions       |-> m_sessions,
     clients        |-> m_clients,
     now            |-> now,
     log            |-> log,
     polls          |-> polls,
     first          |-> TRUE,
     send_fail      |-> send_fail,
     frame_ok       |-> frame_ok,
     key_ok         |-> TRUE]

(* The same call when the keyboard handler answers key_ok to every command. *)
Answering(s, key_ok) == [s EXCEPT !.key_ok = key_ok]

Commit(s) ==
    /\ m_pending' = s.pending
    /\ m_next_id' = s.next_id
    /\ m_requests' = s.requests
    /\ m_success' = s.success
    /\ m_failures' = s.failures
    /\ m_exit_requested' = s.exit_requested
    /\ g_keyboard_processor' = s.keyboard
    /\ m_sessions' = s.sessions
    /\ m_clients' = s.clients
    /\ now' = s.now
    /\ log' = s.log
    /\ polls' = s.polls
    /\ UNCHANGED <<m_close_after_response, m_token_frame_spacing, m_macro_interkey_frames,
                   m_provider, sink_settings>>

(* One entry of the log: the event, the handler that made the call, the    *)
(* request and client it was made for, its argument and its result.        *)
Emit(s, ev, src, id, client, arg, ok) ==
    [s EXCEPT !.log = Append(@, [ev |-> ev, src |-> src, id |-> id,
                                 client |-> client, arg |-> arg, ok |-> ok,
                                 first |-> s.first]),
              !.first = FALSE]

----------------------------------------------------------------------------
(* The hooks the sink is constructed with and the callbacks of a request.  *)

KeyVerb(kind) ==
    CASE kind = "Press" -> "PRESS"
      [] kind = "Down"  -> "DOWN"
      [] kind = "Up"    -> "UP"

(* Mutant: only PRESS reaches the handler. *)
send_keyboard_action_PressOnly(s, req, src, action) ==
    IF action.kind # "Press" THEN s
    ELSE Emit(s, "key", src, req.id, req.origin, "PRESS " \o action.key, TRUE)

(* send_keyboard_action: a null handler is not called; the handler's       *)
(* answer only decides the diagnostic and the result, which Poll ignores.  *)
send_keyboard_action(s, req, src, action) ==
    IF ~req.keyboard_handler THEN s
    ELSE IF ~IsKeyAction(action) THEN s
    ELSE Emit(s, "key", src, req.id, req.origin,
              KeyVerb(action.kind) \o " " \o action.key, s.key_ok)

(* m_send: TextModeServer::Send, which is NetworkBackend::Send.            *)
SendResult(s, client) == client \notin s.send_fail

m_send(s, src, id, client, payload) ==
    Emit(s, "send", src, id, client, payload, SendResult(s, client))

NoSessions == [c \in {} |-> <<>>]

Erase(sessions, client) == [c \in DOMAIN sessions \ {client} |-> sessions[c]]

(* m_close: TextModeServer::Close, which closes the socket and erases the  *)
(* session.                                                                *)
m_close(s, src, id, client) ==
    [Emit(s, "close", src, id, client, "", TRUE)
        EXCEPT !.clients = @ \ {client}, !.sessions = Erase(@, client)]

Count(s, ok) ==
    IF ok THEN [s EXCEPT !.success = @ + 1] ELSE [s EXCEPT !.failures = @ + 1]

(* Mutant: the completion callback counts nothing. *)
on_complete_Uncounted(s, src, req, success) ==
    Emit(s, "complete", src, req.id, req.origin, "", success)

(* CompletionCallback of a request: the dispatcher's lambda counts the     *)
(* outcome, a test's callback records it.                                  *)
on_complete(s, src, req, success) ==
    LET s1 == Emit(s, "complete", src, req.id, req.origin, "", success)
    IN IF req.on_complete = "counters" THEN Count(s1, success) ELSE s1

(* FrameProvider of a request: ServiceResult{success, frame, error}. *)
frame_provider(s, src, req) ==
    Emit(s, "frame", src, req.id, req.origin, "", s.frame_ok)

----------------------------------------------------------------------------
(* QueuedTypeActionSink::Execute *)

PendingRequest(id, origin, plan, keyboard_handler, frame_prov, on_compl, defer_response) ==
    [id                        |-> id,
     origin                    |-> origin,
     actions                   |-> plan.actions,
     request_frame             |-> plan.request_frame,
     keyboard_handler          |-> keyboard_handler,
     frame_provider            |-> frame_prov,
     on_complete               |-> on_compl,
     next_action               |-> 0,
     has_resume                |-> FALSE,
     resume_at                 |-> 0,
     frames_remaining          |-> 0,
     notify_completion         |-> defer_response,
     send_response             |-> defer_response /\ ~plan.request_frame,
     saw_key_action            |-> FALSE,
     final_frame_wait_inserted |-> FALSE]

Response(ok, payload, deferred, deferred_id) ==
    [ok |-> ok, payload |-> payload, deferred |-> deferred, deferred_id |-> deferred_id]

(* Mutant: the id is the request's place in the queue. *)
NextId_QueuePlace(s) == Len(s.pending) + 1

(* request.id = m_next_id++ *)
NextId(s) == s.next_id

(* Mutant: the new request is put at the head of the queue. *)
Enqueue_AtHead(pending, request) == <<request>> \o pending

(* m_pending.push_back(std::move(request)) *)
Enqueue(pending, request) == Append(pending, request)

(* Mutant: only a plan that asks for a frame is deferred. *)
DeferResponse_FrameOnly(plan) == plan.request_frame

(* const bool defer_response = plan.request_frame || m_close_after_response *)
DeferResponse(plan) == plan.request_frame \/ m_close_after_response

(* Returns the state after the call and the CommandResponse. *)
SinkExecute(s, plan, origin, keyboard_handler, frame_prov, on_compl) ==
    IF plan.actions = <<>> THEN
        LET probe == [id |-> 0, origin |-> origin, on_complete |-> on_compl]
            s0 == Emit(s, "exec", "execute", 0, origin, plan.actions, FALSE)
        IN
        IF ~plan.request_frame THEN
            [s |-> s0, resp |-> Response(TRUE, "OK\n", FALSE, 0)]
        ELSE IF ~frame_prov THEN
            LET s1 == IF on_compl # "none"
                      THEN on_complete(s0, "execute", probe, FALSE) ELSE s0
            IN [s |-> s1, resp |-> Response(FALSE, "ERR service unavailable\n", FALSE, 0)]
        ELSE
            LET s1 == frame_provider(s0, "execute", probe)
                s2 == IF on_compl # "none"
                      THEN on_complete(s1, "execute", probe, s.frame_ok) ELSE s1
            IN IF ~s.frame_ok
               THEN [s |-> s2, resp |-> Response(FALSE, "ERR frame\n", FALSE, 0)]
               ELSE [s |-> s2, resp |-> Response(TRUE, "FRAME", FALSE, 0)]
    ELSE
        LET id == NextId(s)
            defer_response == DeferResponse(plan)
            request == PendingRequest(id, origin, plan, keyboard_handler,
                                      frame_prov, on_compl, defer_response)
            s1 == [s EXCEPT !.next_id = @ + 1,
                            !.pending = Enqueue(@, request)]
            s2 == Emit(s1, "exec", "execute", id, origin, plan.actions, defer_response)
        IN IF defer_response
           THEN [s |-> s2, resp |-> Response(TRUE, "", TRUE, id)]
           ELSE [s |-> s2, resp |-> Response(TRUE, "OK\n", FALSE, 0)]

----------------------------------------------------------------------------
(* QueuedTypeActionSink::Poll *)

SetFront(s, request) == [s EXCEPT !.pending = <<request>> \o Tail(@)]

(* The inner while loop: zero delays are skipped, then one action is       *)
(* processed and the loop is left.                                         *)
RECURSIVE PollActions(_, _, _)

(* Mutant: without a cooldown the loop goes on to the next action. *)
KeyActionDone_GoOn(s, request) ==
    IF request.frames_remaining > 0 \/ request.has_resume
    THEN [s |-> s, request |-> request, advanced |-> TRUE]
    ELSE PollActions(s, request, TRUE)

(* Mutant: a key the keyboard handler refused ends the plan. *)
KeyActionDone_StopOnRefusal(s, request) ==
    IF s.log # <<>> /\ s.log[Len(s.log)].ev = "key" /\ ~s.log[Len(s.log)].ok
    THEN [s |-> s, request |-> [request EXCEPT !.next_action = Len(request.actions)],
          advanced |-> TRUE]
    ELSE [s |-> s, request |-> request, advanced |-> TRUE]

(* After the switch, for a key action: both tests leave the loop ("only    *)
(* process one key action per poll").                                      *)
KeyActionDone(s, request) ==
    [s |-> s, request |-> request, advanced |-> TRUE]

(* Mutant: the spacing is inserted before a delay action too. *)
PollActions_AlwaysSpaced(s, request, advanced) ==
    IF request.next_action >= Len(request.actions) THEN
        [s |-> s, request |-> request, advanced |-> advanced]
    ELSE
        LET action == request.actions[request.next_action + 1]
            stepped == [request EXCEPT !.next_action = @ + 1]
        IN IF action.kind = "DelayFrames" /\ action.frames = 0 THEN
               PollActions(s, stepped, TRUE)
           ELSE IF action.kind = "DelayMs" /\ action.delay_ms <= 0 THEN
               PollActions(s, stepped, TRUE)
           ELSE IF IsKeyAction(action) THEN
               LET seen == [stepped EXCEPT !.saw_key_action = @ \/ action.kind = "Press"]
                   s1 == send_keyboard_action(s, request, "poll", action)
                   next_is_delay ==
                       /\ seen.next_action < Len(seen.actions)
                       /\ is_delay_action(seen.actions[seen.next_action + 1].kind)
                   spaced == IF m_token_frame_spacing > 0
                             THEN [seen EXCEPT !.frames_remaining = m_token_frame_spacing]
                             ELSE seen
               IN KeyActionDone(s1, spaced)
           ELSE IF action.kind = "DelayMs" THEN
               [s |-> s,
                request |-> [stepped EXCEPT !.has_resume = TRUE,
                                            !.resume_at = s.now + action.delay_ms],
                advanced |-> TRUE]
           ELSE
               [s |-> s,
                request |-> [stepped EXCEPT !.frames_remaining = action.frames],
                advanced |-> TRUE]

PollActions(s, request, advanced) ==
    IF request.next_action >= Len(request.actions) THEN
        [s |-> s, request |-> request, advanced |-> advanced]
    ELSE
        LET action == request.actions[request.next_action + 1]
            stepped == [request EXCEPT !.next_action = @ + 1]
        IN IF action.kind = "DelayFrames" /\ action.frames = 0 THEN
               PollActions(s, stepped, TRUE)
           ELSE IF action.kind = "DelayMs" /\ action.delay_ms <= 0 THEN
               PollActions(s, stepped, TRUE)
           ELSE IF IsKeyAction(action) THEN
               LET seen == [stepped EXCEPT !.saw_key_action = @ \/ action.kind = "Press"]
                   s1 == send_keyboard_action(s, request, "poll", action)
                   next_is_delay ==
                       /\ seen.next_action < Len(seen.actions)
                       /\ is_delay_action(seen.actions[seen.next_action + 1].kind)
                   spaced == IF ~next_is_delay /\ m_token_frame_spacing > 0
                             THEN [seen EXCEPT !.frames_remaining = m_token_frame_spacing]
                             ELSE seen
               IN KeyActionDone(s1, spaced)
           ELSE IF action.kind = "DelayMs" THEN
               [s |-> s,
                request |-> [stepped EXCEPT !.has_resume = TRUE,
                                            !.resume_at = s.now + action.delay_ms],
                advanced |-> TRUE]
           ELSE
               [s |-> s,
                request |-> [stepped EXCEPT !.frames_remaining = action.frames],
                advanced |-> TRUE]

(* Mutant: the deferred OK of a request without a frame is never sent. *)
PollComplete_NoDeferredOk(s, request) ==
    IF request.request_frame THEN
        LET s1 == frame_provider(s, "poll", request)
            s2 == m_send(s1, "poll", request.id, request.origin, "FRAME")
        IN [s |-> s2, ok |-> SendResult(s, request.origin)]
    ELSE [s |-> s, ok |-> TRUE]

(* Mutant: the frame is captured a second time for the payload. *)
PollComplete_FrameTwice(s, request) ==
    IF request.request_frame THEN
        LET s1 == IF request.frame_provider
                  THEN frame_provider(frame_provider(s, "poll", request), "poll", request)
                  ELSE s
            frame_ok == request.frame_provider /\ s.frame_ok
            payload == IF ~request.frame_provider THEN "ERR service unavailable\n"
                       ELSE IF ~s.frame_ok THEN "ERR frame\n" ELSE "FRAME"
            s2 == m_send(s1, "poll", request.id, request.origin, payload)
            s3 == IF m_close_after_response
                  THEN m_close(s2, "poll", request.id, request.origin) ELSE s2
        IN [s |-> s3, ok |-> frame_ok /\ SendResult(s, request.origin)]
    ELSE IF request.send_response THEN
        LET s1 == m_send(s, "poll", request.id, request.origin, "OK\n")
            s2 == IF m_close_after_response
                  THEN m_close(s1, "poll", request.id, request.origin) ELSE s1
        IN [s |-> s2, ok |-> SendResult(s, request.origin)]
    ELSE [s |-> s, ok |-> TRUE]

(* Mutant: a reply the socket refused does not make the request fail. *)
PollComplete_SendUnchecked(s, request) ==
    IF request.request_frame THEN
        LET s1 == IF request.frame_provider
                  THEN frame_provider(s, "poll", request) ELSE s
            frame_ok == request.frame_provider /\ s.frame_ok
            payload == IF ~request.frame_provider THEN "ERR service unavailable\n"
                       ELSE IF ~s.frame_ok THEN "ERR frame\n" ELSE "FRAME"
            s2 == m_send(s1, "poll", request.id, request.origin, payload)
            s3 == IF m_close_after_response
                  THEN m_close(s2, "poll", request.id, request.origin) ELSE s2
        IN [s |-> s3, ok |-> frame_ok]
    ELSE IF request.send_response THEN
        LET s1 == m_send(s, "poll", request.id, request.origin, "OK\n")
            s2 == IF m_close_after_response
                  THEN m_close(s1, "poll", request.id, request.origin) ELSE s1
        IN [s |-> s2, ok |-> TRUE]
    ELSE [s |-> s, ok |-> TRUE]

(* The completion lambda of Poll: the reply, the optional close, and the   *)
(* success flag handed to the completion callback.                         *)
PollComplete(s, request) ==
    IF request.request_frame THEN
        LET s1 == IF request.frame_provider
                  THEN frame_provider(s, "poll", request) ELSE s
            frame_ok == request.frame_provider /\ s.frame_ok
            payload == IF ~request.frame_provider THEN "ERR service unavailable\n"
                       ELSE IF ~s.frame_ok THEN "ERR frame\n" ELSE "FRAME"
            s2 == m_send(s1, "poll", request.id, request.origin, payload)
            s3 == IF m_close_after_response
                  THEN m_close(s2, "poll", request.id, request.origin) ELSE s2
        IN [s |-> s3, ok |-> frame_ok /\ SendResult(s, request.origin)]
    ELSE IF request.send_response THEN
        LET s1 == m_send(s, "poll", request.id, request.origin, "OK\n")
            s2 == IF m_close_after_response
                  THEN m_close(s1, "poll", request.id, request.origin) ELSE s1
        IN [s |-> s2, ok |-> SendResult(s, request.origin)]
    ELSE [s |-> s, ok |-> TRUE]

(* Mutant: the deadline of a DelayMs is not waited for. *)
RECURSIVE PollLoop_PastDeadline(_)
PollLoop_PastDeadline(s) ==
    IF s.pending = <<>> THEN s
    ELSE
        LET front == Head(s.pending)
            counted == IF front.frames_remaining > 0
                       THEN [front EXCEPT !.frames_remaining = @ - 1] ELSE front
        IN IF front.frames_remaining > 0 /\ counted.frames_remaining > 0 THEN
               SetFront(s, counted)
           ELSE
               LET resumed == [counted EXCEPT !.has_resume = FALSE]
                   inner == PollActions(s, resumed, FALSE)
                   request == inner.request
               IN IF /\ request.next_action >= Len(request.actions)
                     /\ request.frames_remaining = 0
                     /\ ~request.has_resume
                  THEN
                      IF request.saw_key_action /\ ~request.final_frame_wait_inserted
                      THEN PollLoop_PastDeadline(SetFront(inner.s,
                               [request EXCEPT
                                   !.frames_remaining = Max(1, m_token_frame_spacing),
                                   !.final_frame_wait_inserted = TRUE]))
                      ELSE
                          LET done == PollComplete(inner.s, request)
                              s1 == IF request.notify_completion /\ request.on_complete # "none"
                                    THEN on_complete(done.s, "poll", request, done.ok)
                                    ELSE done.s
                              s2 == Emit(s1, "done", "poll", request.id, request.origin, "", done.ok)
                          IN PollLoop_PastDeadline([s2 EXCEPT !.pending = Tail(@)])
                  ELSE SetFront(inner.s, request)

(* Mutant: a countdown that would end starts again with two frames. *)
RECURSIVE PollLoop_CountdownRestarts(_)
PollLoop_CountdownRestarts(s) ==
    IF s.pending = <<>> THEN s
    ELSE
        LET front == Head(s.pending)
            counted == IF front.frames_remaining > 0
                       THEN [front EXCEPT !.frames_remaining = IF @ = 1 THEN 2 ELSE @ - 1]
                       ELSE front
        IN IF front.frames_remaining > 0 /\ counted.frames_remaining > 0 THEN
               SetFront(s, counted)
           ELSE IF counted.has_resume /\ s.now < counted.resume_at THEN
               SetFront(s, counted)
           ELSE
               LET resumed == [counted EXCEPT !.has_resume = FALSE]
                   inner == PollActions(s, resumed, FALSE)
                   request == inner.request
               IN IF /\ request.next_action >= Len(request.actions)
                     /\ request.frames_remaining = 0
                     /\ ~request.has_resume
                  THEN
                      IF request.saw_key_action /\ ~request.final_frame_wait_inserted
                      THEN PollLoop_CountdownRestarts(SetFront(inner.s,
                               [request EXCEPT
                                   !.frames_remaining = Max(1, m_token_frame_spacing),
                                   !.final_frame_wait_inserted = TRUE]))
                      ELSE
                          LET done == PollComplete(inner.s, request)
                              s1 == IF request.notify_completion /\ request.on_complete # "none"
                                    THEN on_complete(done.s, "poll", request, done.ok)
                                    ELSE done.s
                              s2 == Emit(s1, "done", "poll", request.id, request.origin, "", done.ok)
                          IN PollLoop_CountdownRestarts([s2 EXCEPT !.pending = Tail(@)])
                  ELSE SetFront(inner.s, request)

RECURSIVE PollLoop(_)
PollLoop(s) ==
    IF s.pending = <<>> THEN s
    ELSE
        LET front == Head(s.pending)
            counted == IF front.frames_remaining > 0
                       THEN [front EXCEPT !.frames_remaining = @ - 1] ELSE front
        IN IF front.frames_remaining > 0 /\ counted.frames_remaining > 0 THEN
               SetFront(s, counted)
           ELSE IF counted.has_resume /\ s.now < counted.resume_at THEN
               SetFront(s, counted)
           ELSE
               LET resumed == [counted EXCEPT !.has_resume = FALSE]
                   inner == PollActions(s, resumed, FALSE)
                   request == inner.request
               IN IF /\ request.next_action >= Len(request.actions)
                     /\ request.frames_remaining = 0
                     /\ ~request.has_resume
                  THEN
                      IF request.saw_key_action /\ ~request.final_frame_wait_inserted
                      THEN PollLoop(SetFront(inner.s,
                               [request EXCEPT
                                   !.frames_remaining = Max(1, m_token_frame_spacing),
                                   !.final_frame_wait_inserted = TRUE]))
                      ELSE
                          LET done == PollComplete(inner.s, request)
                              s1 == IF request.notify_completion /\ request.on_complete # "none"
                                    THEN on_complete(done.s, "poll", request, done.ok)
                                    ELSE done.s
                              s2 == Emit(s1, "done", "poll", request.id, request.origin, "", done.ok)
                          IN PollLoop([s2 EXCEPT !.pending = Tail(@)])
                  ELSE SetFront(inner.s, request)

SinkPoll(s) == PollLoop([s EXCEPT !.polls = 1 - @])

----------------------------------------------------------------------------
(* QueuedTypeActionSink::CancelClient *)

RECURSIVE CancelWalk(_, _, _)

(* Mutant: a request that has already started is left in the queue. *)
RECURSIVE CancelWalk_KeepStarted(_, _, _)
CancelWalk_KeepStarted(s, rest, client) ==
    IF rest = <<>> THEN s
    ELSE LET it == Head(rest)
         IN IF it.origin = client /\ it.next_action = 0 THEN
                LET s1 == Emit(s, "cancel", "cancel", it.id, client, "", TRUE)
                    s2 == IF it.notify_completion /\ it.on_complete # "none"
                          THEN on_complete(s1, "cancel", it, FALSE) ELSE s1
                IN CancelWalk_KeepStarted(s2, Tail(rest), client)
            ELSE CancelWalk_KeepStarted([s EXCEPT !.pending = Append(@, it)],
                                        Tail(rest), client)

(* Mutant: the callback is called whether or not the request was deferred. *)
RECURSIVE CancelWalk_NotifyAll(_, _, _)
CancelWalk_NotifyAll(s, rest, client) ==
    IF rest = <<>> THEN s
    ELSE LET it == Head(rest)
         IN IF it.origin = client THEN
                LET s1 == Emit(s, "cancel", "cancel", it.id, client, "", TRUE)
                    s2 == IF it.on_complete # "none"
                          THEN on_complete(s1, "cancel", it, FALSE) ELSE s1
                IN CancelWalk_NotifyAll(s2, Tail(rest), client)
            ELSE CancelWalk_NotifyAll([s EXCEPT !.pending = Append(@, it)],
                                      Tail(rest), client)

CancelWalk(s, rest, client) ==
    IF rest = <<>> THEN s
    ELSE LET it == Head(rest)
         IN IF it.origin = client THEN
                LET s1 == Emit(s, "cancel", "cancel", it.id, client, "", TRUE)
                    s2 == IF it.notify_completion /\ it.on_complete # "none"
                          THEN on_complete(s1, "cancel", it, FALSE) ELSE s1
                IN CancelWalk(s2, Tail(rest), client)
            ELSE CancelWalk([s EXCEPT !.pending = Append(@, it)], Tail(rest), client)

SinkCancelClient(s, client) ==
    LET walked == CancelWalk([s EXCEPT !.pending = <<>>], s.pending, client)
    IN m_close(walked, "cancel", 0, client)

----------------------------------------------------------------------------
(* The sink driven directly, as the unit tests drive it. *)

(* The plans of a direct call are not empty: neither the dispatcher nor a  *)
(* test hands an empty plan to the sink.  A zero delay is a DelayFrames{0}. *)
PlanActions ==
    {make_key_action("Press", "A"), make_key_action("Down", "Shift")}
        \cup {make_delay_ms_action(d) : d \in 1..MaxDelay}
        \cup {make_delay_frames_action(n) : n \in 0..MaxDelay}

SeqsUpTo(S, n) == UNION {[1..k -> S] : k \in 1..n}

RECURSIVE SumLen(_)
SumLen(plans) == IF plans = <<>> THEN 0 ELSE Len(Head(plans)) + SumLen(Tail(plans))

(* The plans handed to Execute so far: each exec entry of the log holds its plan. *)
ExecEntries == SelectSeq(log, LAMBDA e : e.ev = "exec")

ActionsLeft(budget) == budget - SumLen([i \in DOMAIN ExecEntries |-> ExecEntries[i].arg])

Plans(budget) == [actions : SeqsUpTo(PlanActions, ActionsLeft(budget)), request_frame : BOOLEAN]

(* The answers the collaborators can give during one Poll: only the clients *)
(* a reply can go to and only a frame that can be asked for are varied.     *)
ReplyClients == {m_pending[i].origin : i \in {j \in DOMAIN m_pending : m_pending[j].notify_completion}}

FrameAnswers == IF \E i \in DOMAIN m_pending : m_pending[i].request_frame
                THEN BOOLEAN ELSE {TRUE}

(* The keyboard handler can refuse a command only when the head request   *)
(* has a key action left to send.                                          *)
KeyAnswers ==
    IF /\ m_pending # <<>>
       /\ \E i \in DOMAIN Head(m_pending).actions :
              i > Head(m_pending).next_action /\ IsKeyAction(Head(m_pending).actions[i])
    THEN BOOLEAN ELSE {TRUE}

SinkInit ==
    /\ m_pending = <<>>
    /\ m_next_id = 1
    /\ m_close_after_response \in BOOLEAN
    /\ m_token_frame_spacing \in 0..MaxSpacing
    /\ m_macro_interkey_frames = 0
    /\ Configured
    /\ m_requests = 0
    /\ m_success = 0
    /\ m_failures = 0
    /\ m_exit_requested = FALSE
    /\ g_keyboard_processor = NewKeyboard
    /\ m_provider = TRUE
    /\ m_sessions = NoSessions
    /\ m_clients = {}
    /\ now = 0
    /\ log = <<>>
    /\ polls = 0

(* The CommandResponse a call of Execute returned to its caller. *)
Executed(call, origin) ==
    Commit(Emit(call.s, "ret", "execute", call.resp.deferred_id, origin,
                <<call.resp.ok, call.resp.payload>>, call.resp.deferred))

(* A call of Execute with a plan within the budget of actions; the caller  *)
(* sees the CommandResponse it returns.                                    *)
ExecuteWithin(budget) ==
    /\ Len(ExecEntries) < MaxRequests
    /\ \E plan \in Plans(budget), origin \in Clients :
           Executed(SinkExecute(St({}, TRUE), plan, origin, TRUE, TRUE, "recorder"), origin)

DirectExecute == ExecuteWithin(MaxActions)

(* The state a call of Poll has reached, when it changed the queue. *)
Polled(s) == s.pending # m_pending /\ Commit(s)

(* A call of Poll.  A call that finds the queue empty, or its head still   *)
(* waiting for its deadline, changes nothing: it is a stuttering step.     *)
PollAnswered(answers) ==
    \E send_fail \in SUBSET ReplyClients, frame_ok \in FrameAnswers, key_ok \in answers :
        Polled(SinkPoll(Answering(St(send_fail, frame_ok), key_ok)))

(* A call of Poll while the keyboard handler accepts every command. *)
DirectPoll == PollAnswered({TRUE})

(* A call of Poll while the keyboard handler may refuse. *)
RefusablePoll == PollAnswered(KeyAnswers)

(* A call of CancelClient for a client that has a request in the queue. *)
DirectCancelClient ==
    \E client \in Clients :
        /\ \E i \in DOMAIN m_pending : m_pending[i].origin = client
        /\ Commit(SinkCancelClient(St({}, TRUE), client))

(* The clock advances.  Only the distance to the deadline of the head      *)
(* request is ever read, so the clock is moved only while one is waited for. *)
ClockTick ==
    /\ m_pending # <<>>
    /\ Head(m_pending).has_resume
    /\ now < Head(m_pending).resume_at
    /\ now' = now + 1
    /\ UNCHANGED <<m_pending, m_next_id, m_close_after_response, m_token_frame_spacing,
                   m_requests, m_success, m_failures, m_exit_requested,
                   m_macro_interkey_frames, m_provider, sink_settings,
                   g_keyboard_processor, m_sessions, m_clients, log, polls>>

SinkNext == DirectExecute \/ DirectPoll \/ DirectCancelClient \/ ClockTick

SinkSpec == SinkInit /\ [][SinkNext]_vars

(* The same sink with a keyboard handler that may refuse commands, when    *)
(* Poll keeps being called and the clock keeps running:                    *)
(* a Poll that would change the queue is eventually made, and a deadline   *)
(* that is waited for is eventually reached.                               *)
FairExecute == ExecuteWithin(MaxFairActions)

FairSinkNext == FairExecute \/ RefusablePoll \/ DirectCancelClient \/ ClockTick

(* Poll has something to do: the queue is not empty and its head is not   *)
(* waiting for a deadline the clock has not reached.  This is when a call  *)
(* of Poll changes the queue.                                              *)
PollDue ==
    /\ m_pending # <<>>
    /\ ~(/\ Head(m_pending).frames_remaining = 0
         /\ Head(m_pending).has_resume
         /\ now < Head(m_pending).resume_at)

(* A call of Poll made when it has something to do. *)
PollWhenDue == PollDue /\ polls' = 1 - polls

FairSinkSpec ==
    SinkInit /\ [][FairSinkNext]_vars /\ WF_polls(PollWhenDue) /\ WF_vars(ClockTick)

----------------------------------------------------------------------------
(* The TYPE compiler (command_processor.cpp). *)

TypeToken(text, is_quoted) == [text |-> text, is_quoted |-> is_quoted]

(* flush(quoted): an empty current text makes no token. *)
flush(tokens, current, quoted) ==
    IF current # <<>> THEN Append(tokens, TypeToken(current, quoted)) ELSE tokens

RECURSIVE TokenizeFrom(_, _, _, _, _)
TokenizeFrom(argument, i, tokens, current, in_quotes) ==
    IF i > Len(argument) THEN flush(tokens, current, in_quotes)
    ELSE LET ch == argument[i]
         IN IF in_quotes THEN
                IF ch = "\\" /\ i + 1 <= Len(argument) THEN
                    TokenizeFrom(argument, i + 2, tokens, Append(current, argument[i + 1]), TRUE)
                ELSE IF ch = "\"" THEN
                    TokenizeFrom(argument, i + 1, flush(tokens, current, TRUE), <<>>, FALSE)
                ELSE
                    TokenizeFrom(argument, i + 1, tokens, Append(current, ch), TRUE)
            ELSE
                IF isspace(ch) THEN
                    TokenizeFrom(argument, i + 1, flush(tokens, current, FALSE), <<>>, FALSE)
                ELSE IF ch = "\"" THEN
                    TokenizeFrom(argument, i + 1, flush(tokens, current, FALSE), <<>>, TRUE)
                ELSE
                    TokenizeFrom(argument, i + 1, tokens, Append(current, ch), FALSE)

tokenize_type_arguments(argument) == TokenizeFrom(argument, 1, <<>>, <<>>, FALSE)

(* The commands of command_case_lookup(). *)
CommandNames ==
    {<<"T", "Y", "P", "E">>, <<"G", "E", "T">>, <<"V", "I", "E", "W">>,
     <<"S", "T", "A", "T", "S">>, <<"E", "X", "I", "T">>}

(* Mutant: no verb is taken for a command in another case. *)
suggest_command_Never(verb) == FALSE

(* suggest_command(verb) has a suggestion: the verb is a command in another case. *)
suggest_command(verb) == to_upper(verb) \in CommandNames /\ to_upper(verb) # verb

(* The named keys of get_key_map() that the model's inputs can spell. *)
KeyMapNames ==
    {<<"S", "h", "i", "f", "t">>, <<"L", "e", "f", "t", "S", "h", "i", "f", "t">>,
     <<"E", "n", "t", "e", "r">>, <<"S", "p", "a", "c", "e">>, <<"T", "a", "b">>,
     <<"U", "p">>, <<"D", "o", "w", "n">>}

(* map_single_character: a digit or an upper-case letter. *)
map_single_character(ch) == isdigit(ch) \/ isupper(ch)

(* map_f_key: F followed by the decimal numeral of 1 .. 12 (std::stoi      *)
(* accepts leading zeros; the inputs hold no numeral beyond int).          *)
map_f_key(name) ==
    /\ Len(name) >= 2
    /\ name[1] = "F"
    /\ all_digits(Tail(name))
    /\ Len(StripZeros(Tail(name))) \in 1..2
    /\ DecValue(StripZeros(Tail(name))) \in 1..12

(* KeyboardCommandProcessor::ParseKeyName(name) finds a key. *)
ParseKeyName(name) ==
    IF name = <<>> THEN FALSE
    ELSE IF Len(name) = 1 THEN map_single_character(name[1])
    ELSE map_f_key(name) \/ name \in KeyMapNames

(* GetKeyNames(): the named keys, F1 .. F12, A .. Z and 0 .. 9. *)
GetKeyNames ==
    KeyMapNames
        \cup {<<"F", Digits[i]>> : i \in 2..10}
        \cup {<<"F", "1", "0">>, <<"F", "1", "1">>, <<"F", "1", "2">>}
        \cup {<<Upper[i]>> : i \in DOMAIN Upper}
        \cup {<<Digits[i]>> : i \in DOMAIN Digits}

(* suggest_key_token(token) has a suggestion: a key name that is the token *)
(* in another case.                                                        *)
suggest_key_token(token) ==
    \E name \in GetKeyNames : to_upper(name) = to_upper(token) /\ name # token

Nullopt == [has_value |-> FALSE, value |-> 0, case_error |-> FALSE]

Some(value) == [has_value |-> TRUE, value |-> value, case_error |-> FALSE]

CaseError == [has_value |-> FALSE, value |-> 0, case_error |-> TRUE]

(* parse_delay_token: <digits>ms, where zero and an out-of-range numeral   *)
(* give no delay.                                                          *)
parse_delay_token(token) ==
    IF Len(token) > 2 /\ ends_with(token, <<"m", "s">>) THEN
        LET digits == DropLast(token, 2)
        IN IF digits # <<>> /\ all_digits(digits) THEN
               LET parsed == stoul(digits)
               IN IF parsed.thrown THEN Nullopt
                  ELSE IF parsed.value = <<>> THEN Nullopt
                  ELSE Some(milliseconds(parsed.value))
           ELSE Nullopt
    ELSE IF Len(token) > 2 /\ ends_with(to_upper(token), <<"M", "S">>) THEN CaseError
    ELSE Nullopt

(* parse_digits of parse_frames_token: a uint32_t that is not zero. *)
parse_digits(digits) ==
    IF digits = <<>> \/ ~all_digits(digits) THEN Nullopt
    ELSE LET parsed == stoul(digits)
         IN IF parsed.thrown THEN Nullopt
            ELSE IF parsed.value = <<>> \/ ~DecLeq(parsed.value, UINT32_MAX) THEN Nullopt
            ELSE Some(DecValue(parsed.value))

parse_frames_token(token) ==
    IF token = <<>> THEN Nullopt
    ELSE IF Len(token) > 6 /\ ends_with(token, <<"f", "r", "a", "m", "e", "s">>) THEN
        parse_digits(DropLast(token, 6))
    ELSE IF Len(token) > 5 /\ ends_with(token, <<"f", "r", "a", "m", "e">>) THEN
        parse_digits(DropLast(token, 5))
    ELSE IF \/ (Len(token) > 6 /\ ends_with(to_upper(token), <<"F", "R", "A", "M", "E", "S">>))
            \/ (Len(token) > 5 /\ ends_with(to_upper(token), <<"F", "R", "A", "M", "E">>))
        THEN CaseError
    ELSE Nullopt

CharacterMapping(key, requires_shift) == [found |-> TRUE, key |-> key, requires_shift |-> requires_shift]

(* map_character_to_key: letters, digits and the symbols of symbol_map     *)
(* that the model's inputs can hold.                                       *)
map_character_to_key(ch) ==
    IF isalpha(ch) THEN CharacterMapping(toupper(ch), isupper(ch))
    ELSE IF isdigit(ch) THEN CharacterMapping(ch, FALSE)
    ELSE CASE ch = " "  -> CharacterMapping("Space", FALSE)
           [] ch = "\n" -> CharacterMapping("Enter", FALSE)
           [] ch = "\r" -> CharacterMapping("Enter", FALSE)
           [] ch = "\t" -> CharacterMapping("Tab", FALSE)
           [] ch = "\"" -> CharacterMapping("Quote", TRUE)
           [] ch = "\\" -> CharacterMapping("Backslash", FALSE)
           [] ch = "!"  -> CharacterMapping("1", TRUE)
           [] OTHER     -> [found |-> FALSE, key |-> "", requires_shift |-> FALSE]

append_character_actions(mapping, actions) ==
    IF mapping.requires_shift
    THEN actions \o <<make_key_action("Down", "Shift"),
                      make_key_action("Press", mapping.key),
                      make_key_action("Up", "Shift")>>
    ELSE Append(actions, make_key_action("Press", mapping.key))

RECURSIVE StringActionsFrom(_, _, _, _)
StringActionsFrom(text, i, interkey_frames, actions) ==
    IF i > Len(text) THEN actions
    ELSE LET mapping == map_character_to_key(text[i])
         IN IF ~mapping.found THEN StringActionsFrom(text, i + 1, interkey_frames, actions)
            ELSE LET typed == append_character_actions(mapping, actions)
                     have_more == i + 1 <= Len(text)
                 IN StringActionsFrom(text, i + 1, interkey_frames,
                        IF have_more /\ interkey_frames > 0
                        THEN Append(typed, make_delay_frames_action(interkey_frames))
                        ELSE typed)

append_string_actions(text, interkey_frames, actions) ==
    StringActionsFrom(text, 1, interkey_frames, actions)

canonical_backslash(name) ==
    IF name = <<"\\">> THEN <<"B", "a", "c", "k", "s", "l", "a", "s", "h">> ELSE name

(* append_key_token: the actions with the token's key action appended, or  *)
(* unchanged when the token is not accepted.                               *)
append_key_token(token, actions) ==
    IF token = <<>> THEN actions
    ELSE IF ParseKeyName(canonical_backslash(token)) THEN
        Append(actions, make_key_action("Press", Text(canonical_backslash(token))))
    ELSE
        LET upper == to_upper(token)
            exact_down == Len(token) > 4 /\ ends_with(token, <<"D", "o", "w", "n">>)
            exact_up == ~exact_down /\ Len(token) > 2 /\ ends_with(token, <<"U", "p">>)
            loose_down == /\ ~exact_down /\ ~exact_up
                          /\ Len(upper) > 4 /\ ends_with(upper, <<"D", "O", "W", "N">>)
            loose_up == /\ ~exact_down /\ ~exact_up /\ ~loose_down
                        /\ Len(upper) > 2 /\ ends_with(upper, <<"U", "P">>)
            request_down == exact_down \/ loose_down
            request_up == exact_up \/ loose_up
            suffix_case_error == loose_down \/ loose_up
            cut == IF request_down THEN 4 ELSE IF request_up THEN 2 ELSE 0
            base == canonical_backslash(DropLast(token, cut))
            kind == IF request_down THEN "Down" ELSE IF request_up THEN "Up" ELSE "Press"
        IN IF DropLast(token, cut) = <<>> THEN actions
           ELSE IF suggest_key_token(base) THEN actions
           ELSE IF suffix_case_error THEN actions
           ELSE IF ~ParseKeyName(base) THEN actions
           ELSE Append(actions, make_key_action(kind, Text(base)))

(* The token loop of HandleTypeCommand: the plan with one token compiled in. *)
CompileToken(plan, token, macro_interkey_frames) ==
    IF token.text = <<>> /\ ~token.is_quoted THEN plan
    ELSE IF token.is_quoted THEN
        [plan EXCEPT !.actions = append_string_actions(token.text, macro_interkey_frames, @)]
    ELSE IF to_upper(token.text) \in {<<"G", "E", "T">>, <<"V", "I", "E", "W">>} THEN
        [plan EXCEPT !.request_frame = TRUE]
    ELSE
        LET delay == parse_delay_token(token.text)
            frames == parse_frames_token(token.text)
        IN IF delay.has_value THEN
               [plan EXCEPT !.actions = Append(@, make_delay_ms_action(delay.value))]
           ELSE IF delay.case_error THEN plan
           ELSE IF frames.has_value THEN
               [plan EXCEPT !.actions = Append(@, make_delay_frames_action(frames.value))]
           ELSE IF frames.case_error THEN plan
           ELSE [plan EXCEPT !.actions = append_key_token(token.text, @)]

RECURSIVE CompileTokens(_, _, _)
CompileTokens(plan, tokens, macro_interkey_frames) ==
    IF tokens = <<>> THEN plan
    ELSE CompileTokens(CompileToken(plan, Head(tokens), macro_interkey_frames),
                       Tail(tokens), macro_interkey_frames)

(* Mutant: the post-pass extends a plan that asks for no frame too. *)
TrailingDelay_Always(plan, macro_interkey_frames) ==
    IF plan.actions # <<>> /\ ~is_delay_action(plan.actions[Len(plan.actions)].kind)
    THEN [plan EXCEPT !.actions = Append(@, make_delay_frames_action(
                          IF macro_interkey_frames > 0 THEN macro_interkey_frames ELSE 1))]
    ELSE plan

(* Mutant: the post-pass adds nothing. *)
TrailingDelay_None(plan, macro_interkey_frames) == plan

(* The post-pass: a plan that asks for a frame and ends in a key action    *)
(* gets a trailing DelayFrames.                                            *)
TrailingDelay(plan, macro_interkey_frames) ==
    IF /\ plan.request_frame
       /\ plan.actions # <<>>
       /\ ~is_delay_action(plan.actions[Len(plan.actions)].kind)
    THEN [plan EXCEPT !.actions = Append(@, make_delay_frames_action(
                          IF macro_interkey_frames > 0 THEN macro_interkey_frames ELSE 1))]
    ELSE plan

CompilePlan(argument, macro_interkey_frames) ==
    TrailingDelay(CompileTokens([actions |-> <<>>, request_frame |-> FALSE],
                                tokenize_type_arguments(argument),
                                macro_interkey_frames),
                  macro_interkey_frames)

----------------------------------------------------------------------------
(* CommandProcessor, configured as textmode::Configure configures it: the  *)
(* frame provider, the keyboard handler and the queued sink are set, the   *)
(* sink requires a client, and non-frame commands are queued.              *)

m_keyboard_handler == TRUE

(* The frame provider called by the dispatcher itself. *)
ProvideFrame(s, origin) ==
    Emit(s, "frame", "dispatch", 0, origin, "", s.frame_ok)

(* send_keyboard_command: a null handler is not called; the handler's      *)
(* answer only decides the diagnostic and the result, which the inline     *)
(* sink ignores.                                                           *)
send_keyboard_command(s, origin, verb, key) ==
    IF ~m_keyboard_handler THEN s
    ELSE Emit(s, "key", "immediate", 0, origin, verb \o " " \o key, s.key_ok)

(* Mutant: a key held down is sent as a key press. *)
ImmediateAction_DownAsPress(s, origin, action) ==
    CASE action.kind \in {"Press", "Down"} -> send_keyboard_command(s, origin, "PRESS", action.key)
      [] action.kind = "Up"    -> send_keyboard_command(s, origin, "UP", action.key)
      [] OTHER                 -> s

(* The switch of ImmediateTypeActionSink::Execute: a key action is sent at *)
(* once, a delay is slept through.                                         *)
ImmediateAction(s, origin, action) ==
    CASE action.kind = "Press" -> send_keyboard_command(s, origin, "PRESS", action.key)
      [] action.kind = "Down"  -> send_keyboard_command(s, origin, "DOWN", action.key)
      [] action.kind = "Up"    -> send_keyboard_command(s, origin, "UP", action.key)
      [] OTHER                 -> s

(* ImmediateTypeActionSink::Execute: the loop over the actions, then the   *)
(* frame is read.                                                          *)
RECURSIVE ImmediateKeys(_, _, _)
ImmediateKeys(s, origin, actions) ==
    IF actions = <<>> THEN s
    ELSE ImmediateKeys(ImmediateAction(s, origin, Head(actions)), origin, Tail(actions))

ImmediateExecute(s, plan, origin) ==
    LET s1 == ImmediateKeys(s, origin, plan.actions)
    IN IF ~plan.request_frame THEN [s |-> s1, resp |-> Response(TRUE, "OK\n", FALSE, 0)]
       ELSE IF ~m_provider THEN
           [s |-> s1, resp |-> Response(FALSE, "ERR service unavailable\n", FALSE, 0)]
       ELSE LET s2 == ProvideFrame(s1, origin)
            IN IF ~s.frame_ok
               THEN [s |-> s2, resp |-> Response(FALSE, "ERR frame\n", FALSE, 0)]
               ELSE [s |-> s2, resp |-> Response(TRUE, "FRAME", FALSE, 0)]

(* Mutant: a plan without an origin is queued as well. *)
use_queue_AnyOrigin(plan, origin) ==
    /\ m_type_sink
    /\ (plan.request_frame \/ m_queue_non_frame_commands)
    /\ m_allow_deferred_frames

(* use_queue of HandleTypeCommand.  Without a configured sink m_type_sink  *)
(* is an inline sink, so the plan is executed inline either way.           *)
use_queue(plan, origin) ==
    /\ m_type_sink
    /\ ~(origin = 0 /\ m_type_sink_requires_client)
    /\ (plan.request_frame \/ m_queue_non_frame_commands)
    /\ m_allow_deferred_frames

(* The end of HandleTypeCommand: a response that is not deferred is        *)
(* counted before it is returned.                                          *)
CountResponse(call) ==
    IF ~call.resp.deferred
    THEN [s |-> Count(call.s, call.resp.ok), resp |-> call.resp]
    ELSE call

(* HandleTypeCommand once the plan is compiled: an empty plan is answered  *)
(* on the spot, any other is handed to a sink.                             *)
ExecutePlan(s, plan, origin) ==
    IF plan.actions = <<>> THEN
        IF ~plan.request_frame THEN
            [s |-> Count(s, TRUE), resp |-> Response(TRUE, "OK\n", FALSE, 0)]
        ELSE IF ~m_provider THEN
            [s |-> Count(s, FALSE),
             resp |-> Response(FALSE, "ERR service unavailable\n", FALSE, 0)]
        ELSE IF ~s.frame_ok
             THEN [s |-> Count(ProvideFrame(s, origin), FALSE),
                   resp |-> Response(FALSE, "ERR frame\n", FALSE, 0)]
             ELSE [s |-> Count(ProvideFrame(s, origin), TRUE),
                   resp |-> Response(TRUE, "FRAME", FALSE, 0)]
    ELSE
        CountResponse(IF use_queue(plan, origin)
                      THEN SinkExecute(s, plan, origin, m_keyboard_handler,
                                       m_provider, "counters")
                      ELSE ImmediateExecute(s, plan, origin))

HandleTypeCommand(s, argument, origin) ==
    IF ~m_keyboard_handler THEN
        [s |-> Count([s EXCEPT !.requests = @ + 1], FALSE),
         resp |-> Response(FALSE, "ERR keyboard unavailable\n", FALSE, 0)]
    ELSE
        ExecutePlan([s EXCEPT !.requests = @ + 1],
                    CompilePlan(argument, m_macro_interkey_frames), origin)

(* The STATS line. *)
StatsPayload(s) ==
    "requests=" \o ToString(s.requests) \o " success=" \o ToString(s.success)
        \o " failures=" \o ToString(s.failures) \o " keys_down=\n"

HandleCommandInternal(s, raw_command, origin) ==
    LET trimmed == trim(raw_command)
        space_pos == find(trimmed, " ")
        verb == IF space_pos = 0 THEN trimmed ELSE SubSeq(trimmed, 1, space_pos - 1)
        verb_upper == to_upper(verb)
        argument == IF space_pos = 0 THEN <<>>
                    ELSE trim(SubSeq(trimmed, space_pos + 1, Len(trimmed)))
    IN IF trimmed = <<>> THEN
           [s |-> s, resp |-> Response(FALSE, "ERR empty command\n", FALSE, 0)]
       ELSE IF suggest_command(verb) THEN
           [s |-> s, resp |-> Response(FALSE, "ERR commands are case-sensitive\n", FALSE, 0)]
       ELSE IF verb_upper = <<"S", "T", "A", "T", "S">> THEN
           [s |-> s, resp |-> Response(TRUE, StatsPayload(s), FALSE, 0)]
       ELSE IF verb_upper = <<"E", "X", "I", "T">> THEN
           LET s1 == Emit([s EXCEPT !.requests = @ + 1], "exit", "dispatch", 0, origin, "", TRUE)
           IN [s |-> Count([s1 EXCEPT !.exit_requested = TRUE], TRUE),
               resp |-> Response(TRUE, "OK\n", FALSE, 0)]
       ELSE IF verb_upper \in {<<"G", "E", "T">>, <<"V", "I", "E", "W">>} THEN
           IF ~m_provider THEN
               [s |-> s, resp |-> Response(FALSE, "ERR service unavailable\n", FALSE, 0)]
           ELSE LET s1 == ProvideFrame([s EXCEPT !.requests = @ + 1], origin)
                IN IF ~s.frame_ok
                   THEN [s |-> Count(s1, FALSE), resp |-> Response(FALSE, "ERR frame\n", FALSE, 0)]
                   ELSE [s |-> Count(s1, TRUE), resp |-> Response(TRUE, "FRAME", FALSE, 0)]
       ELSE IF verb_upper = <<"T", "Y", "P", "E">> THEN
           HandleTypeCommand(s, argument, origin)
       ELSE [s |-> s, resp |-> Response(FALSE, "ERR unknown command\n", FALSE, 0)]

(* HandleCommand(command, origin): the origin is set for the call. *)
HandleCommand(s, command, origin) == HandleCommandInternal(s, command, origin)

(* ConsumeExitRequest: the flag is read and cleared. *)
ConsumeExitRequest(s) ==
    [s |-> [s EXCEPT !.exit_requested = FALSE], result |-> s.exit_requested]

----------------------------------------------------------------------------
(* TextModeServer and its backend (server.cpp). *)

(* The client-close callback set by EnsureServer: the sink cancels the client. *)
m_client_close_callback(s, client) == SinkCancelClient(s, client)

(* TextModeServer::Drop *)
Drop(s, client) ==
    LET s1 == Emit(s, "drop", "server", 0, client, "", TRUE)
        s2 == [s1 EXCEPT !.sessions = Erase(@, client), !.clients = @ \ {client}]
    IN m_client_close_callback(s2, client)

(* Mutant: the reply is sent whether or not the response is deferred. *)
Reply_Always(response) == TRUE

(* if (!response.deferred): HandleData sends the payload itself. *)
Reply(response) == ~response.deferred

(* The while loop of HandleData: one line is cut off the buffer, handed to *)
(* the dispatcher and answered.                                            *)
RECURSIVE HandleLines(_, _)

(* if (m_processor->ConsumeExitRequest()) { Drop(client); break; } *)
AfterExitRequest(exit, client) ==
    IF exit.result THEN Drop(exit.s, client) ELSE HandleLines(exit.s, client)

(* Mutant: a failed send does not end the session. *)
AfterSend_KeepOnFailure(s, client) ==
    IF m_close_after_response THEN Drop(s, client)
    ELSE AfterExitRequest(ConsumeExitRequest(s), client)

(* The payload was handed to the backend: the client is dropped when the   *)
(* send failed, when every response closes and when EXIT was asked.        *)
AfterSend(s, client) ==
    IF ~SendResult(s, client) THEN Drop(s, client)
    ELSE IF m_close_after_response THEN Drop(s, client)
    ELSE AfterExitRequest(ConsumeExitRequest(s), client)

(* The response of HandleCommand is sent unless it is deferred. *)
Respond(s, client, response) ==
    IF Reply(response)
    THEN AfterSend(m_send(s, "server", 0, client, response.payload), client)
    ELSE HandleLines(s, client)

(* The response HandleCommand returned to HandleData. *)
Returned(call, client) ==
    Respond(Emit(call.s, "resp", "server", call.resp.deferred_id, client,
                 call.resp.payload, call.resp.deferred),
            client, call.resp)

(* One line, cut off the buffer, is handed to the dispatcher. *)
Dispatch(s, client, line) ==
    Returned(HandleCommand(Emit(s, "line", "server", 0, client, line, TRUE), line, client),
             client)

(* Mutant: the carriage return stays on the line. *)
LineOf_KeepCR(cut) == cut

(* The line without its newline and without a carriage return before it. *)
LineOf(cut) ==
    IF cut # <<>> /\ cut[Len(cut)] = "\r" THEN DropLast(cut, 1) ELSE cut

HandleLines(s, client) ==
    LET buffer == s.sessions[client]
        newline_pos == find(buffer, "\n")
    IN IF newline_pos = 0 THEN s
       ELSE Dispatch([s EXCEPT !.sessions[client] =
                         SubSeq(buffer, newline_pos + 1, Len(buffer))],
                     client, LineOf(SubSeq(buffer, 1, newline_pos - 1)))

(* TextModeServer::HandleData *)
HandleData(s, client, data) ==
    IF client \notin DOMAIN s.sessions THEN s
    ELSE HandleLines([s EXCEPT !.sessions[client] = @ \o data], client)

Connected(client) == [type |-> "Connected", client |-> client, data |-> <<>>]

Data(client, data) == [type |-> "Data", client |-> client, data |-> data]

Closed(client) == [type |-> "Closed", client |-> client, data |-> <<>>]

(* SdlNetBackend::Poll: the accepted clients are added to m_clients and    *)
(* the clients found closed are removed from it before the events are      *)
(* handed to the server.                                                   *)
BackendPoll(s, events) ==
    LET of(type) == {events[i].client : i \in {j \in DOMAIN events : events[j].type = type}}
    IN [s EXCEPT !.clients = (@ \cup of("Connected")) \ of("Closed")]

(* TextModeServer::Poll: the loop over the events. *)
RECURSIVE HandleEvents(_, _)
HandleEvents(s, events) ==
    IF events = <<>> THEN s
    ELSE LET event == Head(events)
             s1 == CASE event.type = "Connected" ->
                         LET s0 == Emit(s, "connect", "server", 0, event.client, "", TRUE)
                         IN IF event.client \in DOMAIN s.sessions THEN s0
                            ELSE [s0 EXCEPT !.sessions =
                                     [c \in DOMAIN @ \cup {event.client} |->
                                         IF c = event.client THEN <<>> ELSE @[c]]]
                    [] event.type = "Data" ->
                         HandleData(Emit(s, "data", "server", 0, event.client, event.data, TRUE),
                                    event.client, event.data)
                    [] event.type = "Closed" -> Drop(s, event.client)
         IN HandleEvents(s1, Tail(events))

ServerPoll(s, events) == HandleEvents(BackendPoll(s, events), events)

(* textmode::Poll: the server's poll, then the sink's. *)
Poll(s, events) == SinkPoll([ServerPoll(s, events) EXCEPT !.first = TRUE])

----------------------------------------------------------------------------
(* The command lines of the model's clients. *)

RECURSIVE Join(_)
Join(words) ==
    IF words = <<>> THEN <<>>
    ELSE IF Len(words) = 1 THEN Head(words)
    ELSE Head(words) \o <<" ">> \o Join(Tail(words))

(* The tokens of the TYPE lines: a key, a key held down, a delay, a quoted *)
(* string with a shifted letter, and the frame request.                    *)
TokenTexts ==
    {<<"A">>,
     <<"S", "h", "i", "f", "t", "D", "o", "w", "n">>,
     <<"1", "m", "s">>,
     <<"\"", "a", "B", "\"">>,
     <<"G", "E", "T">>}

(* The TYPE lines the clients of the whole service send: a key, a key and *)
(* the frame, a delay and the frame, the frame alone.                      *)
ServiceTypeLines ==
    {<<"T", "Y", "P", "E", " ", "A">>,
     <<"T", "Y", "P", "E", " ", "A", " ", "G", "E", "T">>,
     <<"T", "Y", "P", "E", " ", "1", "m", "s", " ", "G", "E", "T">>,
     <<"T", "Y", "P", "E", " ", "G", "E", "T">>}

(* The lines without tokens: the frame request, the counters, the exit,    *)
(* a verb in the wrong case, an unknown verb and the empty line; one ends  *)
(* in a carriage return.                                                   *)
FixedLines ==
    {<<"G", "E", "T">>, <<"S", "T", "A", "T", "S", "\r">>, <<"E", "X", "I", "T">>,
     <<"g", "e", "t">>, <<"N", "O", "P">>, <<>>}

TypeLines(texts, n) ==
    {Join(<<<<"T", "Y", "P", "E">>>> \o tokens) :
        tokens \in UNION {[1..k -> texts] : k \in 0..n}}

Occurrences(str, ch) == Cardinality({i \in DOMAIN str : str[i] = ch})

RECURSIVE Flatten(_)
Flatten(seqs) == IF seqs = <<>> THEN <<>> ELSE Head(seqs) \o Flatten(Tail(seqs))

(* The number of ch in the text the entries ev of the log hold. *)
RECURSIVE Received(_, _, _)
Received(i, ev, ch) ==
    IF i = 0 THEN 0
    ELSE Received(i - 1, ev, ch)
             + (IF log[i].ev = ev THEN Occurrences(log[i].arg, ch) ELSE 0)

(* The entries a handler call has added to the log. *)
NewEntries(s) == SubSeq(s.log, Len(log) + 1, Len(s.log))

(* The answers of the collaborators that a call has met: a frame that      *)
(* fails was asked for, a socket that refuses was sent to.                 *)
Met(s, send_fail, frame_ok) ==
    LET new == NewEntries(s)
    IN /\ frame_ok \/ \E i \in DOMAIN new : new[i].ev = "frame"
       /\ \A c \in send_fail : \E i \in DOMAIN new : new[i].ev = "send" /\ new[i].client = c

----------------------------------------------------------------------------
(* One TYPE command compiled by the dispatcher and run by the queued sink: *)
(* the line is handed to HandleCommand with its origin, then the sink is   *)
(* polled or the client is cancelled.                                      *)

TypeInit ==
    /\ m_pending = <<>>
    /\ m_next_id = 1
    /\ m_close_after_response \in BOOLEAN
    /\ m_token_frame_spacing \in 0..MaxSpacing
    /\ m_macro_interkey_frames \in 0..MaxInterkey
    /\ Configured
    /\ m_requests = 0
    /\ m_success = 0
    /\ m_failures = 0
    /\ m_exit_requested = FALSE
    /\ g_keyboard_processor = NewKeyboard
    /\ m_provider = TRUE
    /\ m_sessions = NoSessions
    /\ m_clients = {}
    /\ now = 0
    /\ log = <<>>
    /\ polls = 0

(* The origins of a call of HandleCommand: none (the call without an      *)
(* origin, CommandOrigin{}.client = 0) or the handle of a client.          *)
Origins == {0, SetMin(Clients)}

(* The CommandResponse a call of HandleCommand returned to its caller. *)
Handled(call, origin, frame_ok) ==
    /\ Met(call.s, {}, frame_ok)
    /\ Commit(Emit(call.s, "resp", "dispatch", call.resp.deferred_id, origin,
                   call.resp.payload, call.resp.deferred))

(* A call of HandleCommand(line, origin) with one of the lines. *)
CommandAmong(lines, origins) ==
    /\ \A i \in DOMAIN log : log[i].ev # "line"
    /\ \E line \in lines, frame_ok \in BOOLEAN, origin \in origins :
           Handled(HandleCommand(Emit(St({}, frame_ok), "line", "dispatch", 0,
                                      origin, line, TRUE),
                                 line, origin),
                   origin, frame_ok)

(* A call of HandleCommand(line, origin) with a TYPE line of a client. *)
TypeCommand == CommandAmong(TypeLines(TokenTexts, MaxTypeTokens), {SetMin(Clients)})

TypeNext == TypeCommand \/ DirectPoll \/ DirectCancelClient \/ ClockTick

TypeSpec == TypeInit /\ [][TypeNext]_vars

----------------------------------------------------------------------------
(* The whole service: clients connect, send command lines and disconnect;  *)
(* the host calls textmode::Poll once per tick.                            *)

(* macro_interkey_frames as the configuration section sets it by default. *)
DefaultInterkey == 1

(* What is left of the run's lines, tokens and connections. *)
LinesLeft == MaxLines - Received(Len(log), "data", "\n")

ConnectsLeft == MaxConnects - Cardinality({i \in DOMAIN log : log[i].ev = "connect"})

(* The data one client can send in one tick: one line, or a TYPE line and  *)
(* a frame request at once.                                                *)
Chunks ==
    IF LinesLeft < 1 THEN {}
    ELSE {line \o <<"\n">> : line \in FixedLines \cup ServiceTypeLines}
         \cup (IF LinesLeft < 2 THEN {}
               ELSE {first \o <<"\n", "G", "E", "T", "\n">> : first \in ServiceTypeLines})

(* The backend hands out the lowest handle that is free. *)
Events ==
    {Connected(c) : c \in {d \in Clients : /\ ConnectsLeft > 0
                                            /\ d \notin m_clients
                                            /\ \A e \in 1..(d - 1) : e \in m_clients}}
        \cup {Data(c, chunk) : c \in m_clients, chunk \in Chunks}
        \cup {Closed(c) : c \in m_clients}

(* The events of one backend poll: the accepted clients, then the data,    *)
(* then the closed clients, each client at most once.                      *)
EventOrder(type) == CASE type = "Connected" -> 1 [] type = "Data" -> 2 [] type = "Closed" -> 3

ValidBatch(batch) ==
    /\ \A i, j \in DOMAIN batch :
           i < j => /\ EventOrder(batch[i].type) <= EventOrder(batch[j].type)
                    /\ batch[i].client # batch[j].client
    /\ Occurrences([i \in DOMAIN batch |-> batch[i].type], "Connected") <= ConnectsLeft
    /\ Occurrences(Flatten([i \in DOMAIN batch |-> batch[i].data]), "\n") <= LinesLeft

EventBatches ==
    {batch \in UNION {[1..k -> Events] : k \in 0..MaxEvents} : ValidBatch(batch)}

Init ==
    /\ m_pending = <<>>
    /\ m_next_id = 1
    /\ m_close_after_response \in BOOLEAN
    /\ m_token_frame_spacing \in 0..MaxServiceSpacing
    /\ m_macro_interkey_frames = DefaultInterkey
    /\ Configured
    /\ m_requests = 0
    /\ m_success = 0
    /\ m_failures = 0
    /\ m_exit_requested = FALSE
    /\ g_keyboard_processor = NewKeyboard
    /\ m_provider = TRUE
    /\ m_sessions = NoSessions
    /\ m_clients = {}
    /\ now = 0
    /\ log = <<>>
    /\ polls = 0

(* The clients a tick can send to: those that send data and those a       *)
(* queued request will answer.                                             *)
Addressees(events) ==
    {events[i].client : i \in {j \in DOMAIN events : events[j].type = "Data"}}
        \cup ReplyClients

(* One tick of the host: textmode::Poll with the events the backend has.   *)
(* At most one socket refuses its sends during a tick.                     *)
(* The state a call of textmode::Poll has reached becomes the state of    *)
(* the program; a call that changes nothing is a stuttering step.          *)
Ticked(s, send_fail, frame_ok) ==
    /\ Met(s, send_fail, frame_ok)
    /\ <<s.pending, s.sessions, s.clients, s.log>> # <<m_pending, m_sessions, m_clients, log>>
    /\ Commit(s)

Tick ==
    \E events \in EventBatches, frame_ok \in BOOLEAN :
    \E send_fail \in {{}} \cup {{c} : c \in Addressees(events)} :
        Ticked(Poll(St(send_fail, frame_ok), events), send_fail, frame_ok)

Next == Tick \/ ClockTick

Spec == Init /\ [][Next]_vars

----------------------------------------------------------------------------
(* The choice of the sink: one TYPE command handled by a dispatcher with   *)
(* any setting of its sink, with and without an origin.                    *)

ChoiceInit ==
    /\ m_pending = <<>>
    /\ m_next_id = 1
    /\ m_close_after_response \in BOOLEAN
    /\ m_token_frame_spacing \in 0..MaxServiceSpacing
    /\ m_macro_interkey_frames = DefaultInterkey
    /\ m_type_sink \in BOOLEAN
    /\ m_type_sink_requires_client \in BOOLEAN
    /\ m_queue_non_frame_commands \in BOOLEAN
    /\ m_allow_deferred_frames \in BOOLEAN
    /\ m_requests = 0
    /\ m_success = 0
    /\ m_failures = 0
    /\ m_exit_requested = FALSE
    /\ g_keyboard_processor = NewKeyboard
    /\ m_provider = TRUE
    /\ m_sessions = NoSessions
    /\ m_clients = {}
    /\ now = 0
    /\ log = <<>>
    /\ polls = 0

(* A call of HandleCommand(line) or HandleCommand(line, origin) with a     *)
(* TYPE line.                                                              *)
ChoiceCommand == CommandAmong(ServiceTypeLines, Origins)

ChoiceNext == ChoiceCommand \/ DirectPoll \/ DirectCancelClient \/ ClockTick

ChoiceSpec == ChoiceInit /\ [][ChoiceNext]_vars

----------------------------------------------------------------------------
(* The keyboard state model (keyboard_processor.cpp).  A KBD_KEYS value is *)
(* the string of its enumerator.                                           *)

INT_MAX == <<"2", "1", "4", "7", "4", "8", "3", "6", "4", "7">>

tolower(ch) == IF ch \in Range(Upper) THEN Lower[IndexIn(Upper, ch)] ELSE ch

(* std::stoi(number_part) of map_f_key throws std::out_of_range when the   *)
(* numeral is larger than an int.                                          *)
map_f_key_throws(name) ==
    /\ Len(name) >= 2
    /\ name[1] = "F"
    /\ all_digits(Tail(name))
    /\ ~DecLeq(StripZeros(Tail(name)), INT_MAX)

(* The KBD_KEYS of a name of get_key_map() that the model's inputs can spell. *)
key_map(name) ==
    CASE name = <<"S", "h", "i", "f", "t">> -> "KBD_leftshift"
      [] name = <<"L", "e", "f", "t", "S", "h", "i", "f", "t">> -> "KBD_leftshift"
      [] name = <<"E", "n", "t", "e", "r">> -> "KBD_enter"
      [] name = <<"S", "p", "a", "c", "e">> -> "KBD_space"
      [] name = <<"T", "a", "b">> -> "KBD_tab"
      [] name = <<"U", "p">> -> "KBD_up"
      [] name = <<"D", "o", "w", "n">> -> "KBD_down"

(* The KBD_KEYS that ParseKeyName(name) returns when it finds a key. *)
ParsedKey(name) ==
    IF Len(name) = 1 THEN "KBD_" \o tolower(name[1])
    ELSE IF map_f_key(name) THEN "KBD_f" \o Text(StripZeros(Tail(name)))
    ELSE key_map(name)

(* format_display_name(token) *)
RECURSIVE TitleCase(_, _)
TitleCase(upper, new_word) ==
    IF upper = <<>> THEN <<>>
    ELSE LET ch == Head(upper)
         IN IF ~(isalpha(ch) \/ isdigit(ch)) THEN <<ch>> \o TitleCase(Tail(upper), TRUE)
            ELSE <<IF new_word THEN toupper(ch) ELSE tolower(ch)>>
                     \o TitleCase(Tail(upper), isdigit(ch))

starts_with(value, prefix) ==
    Len(value) >= Len(prefix) /\ SubSeq(value, 1, Len(prefix)) = prefix

format_display_name(token) ==
    LET upper == to_upper(token)
        lowered(rest) == [i \in DOMAIN rest |-> tolower(rest[i])]
    IN IF upper \in {<<"S", "H", "I", "F", "T">>, <<"L", "S", "H", "I", "F", "T">>,
                     <<"R", "S", "H", "I", "F", "T">>} THEN "Shift"
       ELSE IF upper \in {<<"C", "T", "R", "L">>, <<"L", "C", "T", "R", "L">>,
                          <<"R", "C", "T", "R", "L">>,
                          <<"C", "O", "N", "T", "R", "O", "L">>} THEN "Ctrl"
       ELSE IF upper \in {<<"A", "L", "T">>, <<"L", "A", "L", "T">>, <<"R", "A", "L", "T">>,
                          <<"L", "E", "F", "T", "A", "L", "T">>,
                          <<"R", "I", "G", "H", "T", "A", "L", "T">>} THEN "Alt"
       ELSE IF upper \in {<<"C", "A", "P", "S">>,
                          <<"C", "A", "P", "S", "L", "O", "C", "K">>} THEN "CapsLock"
       ELSE IF starts_with(upper, <<"N", "U", "M", "P", "A", "D">>)
            THEN "NumPad" \o Text(lowered(SubSeq(upper, 7, Len(upper))))
       ELSE IF starts_with(upper, <<"K", "P">>)
            THEN "NumPad" \o Text(lowered(SubSeq(upper, 3, Len(upper))))
       ELSE IF Len(upper) > 1 /\ upper[1] = "F" /\ all_digits(Tail(upper))
            THEN "F" \o Text(Tail(upper))
       ELSE IF Len(upper) = 1 THEN upper[1]
       ELSE Text(TitleCase(upper, TRUE))

ok_response == Response(TRUE, "OK\n", FALSE, 0)

error_response(message) == Response(FALSE, "ERR " \o message \o "\n", FALSE, 0)

(* FirstToken(args, remainder_out): the first word and what follows it. *)
FirstToken(args) ==
    LET trimmed == trim(args)
        blanks == {i \in DOMAIN trimmed : trimmed[i] \in {" ", "\t"}}
    IN IF trimmed = <<>> THEN [has_value |-> FALSE, value |-> <<>>, remainder |-> <<>>]
       ELSE IF blanks = {} THEN [has_value |-> TRUE, value |-> trimmed, remainder |-> <<>>]
       ELSE [has_value |-> TRUE,
             value |-> SubSeq(trimmed, 1, SetMin(blanks) - 1),
             remainder |-> trim(SubSeq(trimmed, SetMin(blanks) + 1, Len(trimmed)))]

(* m_sink(key, pressed): the event handed to the key injector. *)
m_sink(s, key, pressed) == Emit(s, "inject", "keyboard", 0, 0, <<key, pressed>>, TRUE)

(* What a handler of one verb gives: the state, the response, and whether  *)
(* an exception left the handler instead.                                  *)
Answer(s, resp) == [s |-> s, resp |-> resp, thrown |-> FALSE]

Thrown(s) == [s |-> s, resp |-> error_response("std::out_of_range"), thrown |-> TRUE]

(* The checks HandlePress, HandleDown and HandleUp begin with: the failure *)
(* they end in, or none.                                                   *)
KeyArgument(args) ==
    LET token == FirstToken(args)
    IN IF ~token.has_value THEN [error |-> "missing key", thrown |-> FALSE, name |-> <<>>]
       ELSE IF token.remainder # <<>>
            THEN [error |-> "unexpected arguments", thrown |-> FALSE, name |-> <<>>]
       ELSE IF Len(token.value) > 1 /\ map_f_key_throws(token.value)
            THEN [error |-> "", thrown |-> TRUE, name |-> <<>>]
       ELSE IF ~ParseKeyName(token.value)
            THEN [error |-> "unknown key", thrown |-> FALSE, name |-> <<>>]
       ELSE [error |-> "", thrown |-> FALSE, name |-> token.value]

Held(s, key) == key \in DOMAIN s.keyboard.m_pressed

(* Mutant: a pressed key is recorded as held. *)
HandlePress_Holds(s, args) ==
    LET arg == KeyArgument(args)
        key == ParsedKey(arg.name)
    IN IF arg.thrown THEN Thrown(s)
       ELSE IF arg.error # "" THEN Answer(s, error_response(arg.error))
       ELSE IF Held(s, key) THEN Answer(s, error_response("key already down"))
       ELSE Answer([m_sink(m_sink(s, key, TRUE), key, FALSE) EXCEPT !.keyboard.m_pressed =
                        [k \in DOMAIN @ \cup {key} |->
                            IF k = key THEN format_display_name(arg.name) ELSE @[k]]],
                   ok_response)

HandlePress(s, args) ==
    LET arg == KeyArgument(args)
        key == ParsedKey(arg.name)
    IN IF arg.thrown THEN Thrown(s)
       ELSE IF arg.error # "" THEN Answer(s, error_response(arg.error))
       ELSE IF Held(s, key) THEN Answer(s, error_response("key already down"))
       ELSE Answer(m_sink(m_sink(s, key, TRUE), key, FALSE), ok_response)

(* Mutant: a key that is held is put down again. *)
HandleDown_Again(s, args) ==
    LET arg == KeyArgument(args)
        key == ParsedKey(arg.name)
    IN IF arg.thrown THEN Thrown(s)
       ELSE IF arg.error # "" THEN Answer(s, error_response(arg.error))
       ELSE Answer([m_sink(s, key, TRUE) EXCEPT !.keyboard.m_pressed =
                        [k \in DOMAIN @ \cup {key} |->
                            IF k = key THEN format_display_name(arg.name) ELSE @[k]]],
                   ok_response)

HandleDown(s, args) ==
    LET arg == KeyArgument(args)
        key == ParsedKey(arg.name)
    IN IF arg.thrown THEN Thrown(s)
       ELSE IF arg.error # "" THEN Answer(s, error_response(arg.error))
       ELSE IF Held(s, key) THEN Answer(s, error_response("key already down"))
       ELSE Answer([m_sink(s, key, TRUE) EXCEPT !.keyboard.m_pressed =
                        [k \in DOMAIN @ \cup {key} |->
                            IF k = key THEN format_display_name(arg.name) ELSE @[k]]],
                   ok_response)

(* Mutant: the released key stays recorded as held. *)
HandleUp_KeepsHeld(s, args) ==
    LET arg == KeyArgument(args)
        key == ParsedKey(arg.name)
    IN IF arg.thrown THEN Thrown(s)
       ELSE IF arg.error # "" THEN Answer(s, error_response(arg.error))
       ELSE IF ~Held(s, key) THEN Answer(s, error_response("key not down"))
       ELSE Answer(m_sink(s, key, FALSE), ok_response)

HandleUp(s, args) ==
    LET arg == KeyArgument(args)
        key == ParsedKey(arg.name)
    IN IF arg.thrown THEN Thrown(s)
       ELSE IF arg.error # "" THEN Answer(s, error_response(arg.error))
       ELSE IF ~Held(s, key) THEN Answer(s, error_response("key not down"))
       ELSE Answer([m_sink(s, key, FALSE) EXCEPT !.keyboard.m_pressed = Erase(@, key)],
                   ok_response)

(* KeyboardCommandProcessor::Reset: the held keys are released in the      *)
(* order the unordered map yields them, then the map is cleared.           *)
RECURSIVE Release(_, _)
Release(s, order) ==
    IF order = <<>> THEN s ELSE Release(m_sink(s, Head(order), FALSE), Tail(order))

(* Mutant: the keys are released and stay recorded as held. *)
Reset_KeepsHeld(s, order) == Release(s, order)

Reset(s, order) == [Release(s, order) EXCEPT !.keyboard.m_pressed = NewKeyboard.m_pressed]

HandleReset(s, order) == Answer(Reset(s, order), ok_response)

HandleStats(s) ==
    Answer(s, Response(TRUE, "commands=" \o ToString(s.keyboard.m_commands)
                                 \o " success=" \o ToString(s.keyboard.m_success)
                                 \o " failures=" \o ToString(s.keyboard.m_failures) \o "\n",
                       FALSE, 0))

(* The end of HandleCommand: the response is counted and returned, unless  *)
(* an exception has left the handler.                                      *)
KeyboardCounted(call) ==
    IF call.thrown THEN call
    ELSE IF call.resp.ok
    THEN [call EXCEPT !.s.keyboard.m_success = @ + 1]
    ELSE [call EXCEPT !.s.keyboard.m_failures = @ + 1]

(* KeyboardCommandProcessor::HandleCommand.  order is the iteration order  *)
(* of m_pressed.                                                           *)
KeyboardHandleCommand(s, raw_command, order) ==
    LET trimmed == trim(raw_command)
        space_pos == find(trimmed, " ")
        verb == IF space_pos = 0 THEN trimmed ELSE SubSeq(trimmed, 1, space_pos - 1)
        verb_upper == to_upper(verb)
        args == IF space_pos = 0 THEN <<>>
                ELSE trim(SubSeq(trimmed, space_pos + 1, Len(trimmed)))
        counted == [s EXCEPT !.keyboard.m_commands = @ + 1]
    IN IF trimmed = <<>> THEN Answer(s, error_response("empty command"))
       ELSE KeyboardCounted(
                CASE verb_upper = <<"P", "R", "E", "S", "S">> -> HandlePress(counted, args)
                  [] verb_upper = <<"D", "O", "W", "N">> -> HandleDown(counted, args)
                  [] verb_upper = <<"U", "P">> -> HandleUp(counted, args)
                  [] verb_upper = <<"R", "E", "S", "E", "T">> -> HandleReset(counted, order)
                  [] verb_upper = <<"S", "T", "A", "T", "S">> -> HandleStats(counted)
                  [] OTHER -> Answer(counted, error_response("unknown command")))

(* ActiveKeys(): the display names of the held keys (sorted by the code). *)
ActiveKeys(keyboard) == {keyboard.m_pressed[k] : k \in DOMAIN keyboard.m_pressed}

----------------------------------------------------------------------------
(* The keyboard processor on its own: command lines handed to the keyboard *)
(* handler, TYPE arguments whose key actions the inline sink sends to it,  *)
(* and the Reset() of Shutdown.                                            *)

KeyboardVerbs == {<<"P", "R", "E", "S", "S">>, <<"D", "O", "W", "N">>, <<"U", "P">>}

KeyboardArguments ==
    {<<" ", "A">>, <<" ", "S", "h", "i", "f", "t">>, <<" ", "F", "1", "3">>, <<>>,
     <<" ", "A", " ", "S", "h", "i", "f", "t">>,
     <<" ", "F", "9", "9", "9", "9", "9", "9", "9", "9", "9", "9", "9">>}

KeyboardLines ==
    {verb \o argument : verb \in KeyboardVerbs, argument \in KeyboardArguments}
        \cup {<<"D", "O", "W", "N", " ", "L", "e", "f", "t", "S", "h", "i", "f", "t">>,
              <<"d", "o", "w", "n", " ", "A">>,
              <<"R", "E", "S", "E", "T">>, <<"R", "E", "S", "E", "T", " ", "A">>,
              <<"S", "T", "A", "T", "S">>,
              <<"N", "O", "P">>, <<>>, <<" ">>}

TypedArguments ==
    {<<"S", "h", "i", "f", "t", "D", "o", "w", "n">>,
     <<"S", "h", "i", "f", "t", "U", "p">>,
     <<"\"", "a", "B", "\"">>,
     <<"A", "D", "o", "w", "n", " ", "A", "U", "p">>,
     <<"A", "D", "o", "w", "n", " ", "S", "h", "i", "f", "t", "D", "o", "w", "n">>,
     <<"S", "h", "i", "f", "t", "D", "o", "w", "n", " ", "\"", "B", "\"", " ",
       "S", "h", "i", "f", "t", "U", "p">>}

(* The orders in which an unordered container may yield its keys. *)
Orders(keys) == {order \in [1..Cardinality(keys) -> keys] : Range(order) = keys}

HeldKeys == DOMAIN g_keyboard_processor.m_pressed

(* An exception that leaves the keyboard handler is caught nowhere: the    *)
(* program ends.                                                           *)
Terminated == \E i \in DOMAIN log : log[i].ev = "throw"

Calls == Cardinality({i \in DOMAIN log : log[i].first})

(* The log keeps, with a command and with its response, the key codes     *)
(* that were held and the counters at that moment.                         *)
Counted(keyboard) == <<keyboard.m_commands, keyboard.m_success, keyboard.m_failures>>

KeyboardReturn(call) ==
    IF call.thrown
    THEN Emit(call.s, "throw", "keyboard", 0, 0,
              [payload |-> "std::out_of_range", held |-> DOMAIN call.s.keyboard.m_pressed,
               counted |-> Counted(call.s.keyboard)],
              FALSE)
    ELSE Emit(call.s, "kbdret", "keyboard", 0, 0,
              [payload |-> call.resp.payload, held |-> DOMAIN call.s.keyboard.m_pressed,
               counted |-> Counted(call.s.keyboard)],
              call.resp.ok)

(* The keyboard handler of Configure: g_keyboard_processor->HandleCommand. *)
keyboard_handler(s, command, order) ==
    KeyboardReturn(KeyboardHandleCommand(
                       Emit(s, "kbd", "keyboard", 0, 0,
                            [command |-> command, held |-> DOMAIN s.keyboard.m_pressed,
                             counted |-> Counted(s.keyboard)], TRUE),
                       command, order))

(* The spelling of a key of a plan. *)
KeyName(key) == CHOOSE name \in GetKeyNames : Text(name) = key

Spelled(verb, key) ==
    (CASE verb = "PRESS" -> <<"P", "R", "E", "S", "S">>
       [] verb = "DOWN" -> <<"D", "O", "W", "N">>
       [] verb = "UP" -> <<"U", "P">>) \o <<" ">> \o KeyName(key)

(* ImmediateTypeActionSink::Execute with this keyboard handler: every key  *)
(* action is sent, whatever the handler answered to the one before.        *)
RECURSIVE TypedKeys(_, _)
TypedKeys(s, actions) ==
    IF actions = <<>> \/ (s.log # <<>> /\ s.log[Len(s.log)].ev = "throw") THEN s
    ELSE LET action == Head(actions)
         IN TypedKeys(IF action.kind \in KeyKinds
                      THEN keyboard_handler(s, Spelled(KeyVerb(action.kind), action.key),
                                            <<>>)
                      ELSE s,
                      Tail(actions))

KeyboardInit ==
    /\ m_pending = <<>>
    /\ m_next_id = 1
    /\ m_close_after_response = FALSE
    /\ m_token_frame_spacing = 0
    /\ m_macro_interkey_frames = DefaultInterkey
    /\ Configured
    /\ m_requests = 0
    /\ m_success = 0
    /\ m_failures = 0
    /\ m_exit_requested = FALSE
    /\ g_keyboard_processor = NewKeyboard
    /\ m_provider = TRUE
    /\ m_sessions = NoSessions
    /\ m_clients = {}
    /\ now = 0
    /\ log = <<>>
    /\ polls = 0

(* One call of the keyboard command handler. *)
KeyboardCommand ==
    /\ ~Terminated
    /\ Calls < MaxKeyboardCommands
    /\ \E command \in KeyboardLines : \E order \in Orders(HeldKeys) :
           Commit(keyboard_handler(St({}, TRUE), command, order))

(* A TYPE argument executed inline against the keyboard handler. *)
KeyboardTyped ==
    /\ ~Terminated
    /\ Calls < MaxKeyboardCommands
    /\ \E argument \in TypedArguments :
           Commit(TypedKeys(Emit(St({}, TRUE), "type", "keyboard", 0, 0, Text(argument), TRUE),
                            CompilePlan(argument, m_macro_interkey_frames).actions))

(* Shutdown: g_keyboard_processor->Reset(). *)
KeyboardReset ==
    /\ ~Terminated
    /\ Calls < MaxKeyboardCommands
    /\ \E order \in Orders(HeldKeys) :
           Commit(Reset(Emit(St({}, TRUE), "reset", "shutdown", 0, 0, "", TRUE), order))

KeyboardNext == KeyboardCommand \/ KeyboardTyped \/ KeyboardReset

KeyboardSpec == KeyboardInit /\ [][KeyboardNext]_vars

----------------------------------------------------------------------------
(* The dispatcher on its own: a CommandProcessor constructed with or       *)
(* without a frame provider, command lines handed to HandleCommand with    *)
(* and without an origin, the polls of the sink, and ConsumeExitRequest.   *)

DispatchLines ==
    {<<"G", "E", "T">>, <<"V", "I", "E", "W">>, <<"g", "e", "t">>, <<"V", "i", "e", "w">>,
     <<"t", "y", "p", "e", " ", "A">>, <<"E", "x", "i", "t">>, <<"s", "t", "a", "t", "s">>,
     <<"T", "Y", "P", "E", " ", "A">>, <<"S", "T", "A", "T", "S">>, <<"E", "X", "I", "T">>,
     <<"N", "O", "P">>, <<>>}

(* The log keeps, before and after a call, the counters, the exit flag and *)
(* the length of the queue of the sink.                                    *)
Observed(s) ==
    Emit(s, "counted", "dispatch", 0, 0,
         [requests |-> s.requests, success |-> s.success, failures |-> s.failures,
          exit_requested |-> s.exit_requested, queued |-> Len(s.pending)],
         TRUE)

DispatchInit ==
    /\ m_pending = <<>>
    /\ m_next_id = 1
    /\ m_close_after_response = FALSE
    /\ m_token_frame_spacing = 0
    /\ m_macro_interkey_frames = DefaultInterkey
    /\ Configured
    /\ m_requests = 0
    /\ m_success = 0
    /\ m_failures = 0
    /\ m_exit_requested = FALSE
    /\ g_keyboard_processor = NewKeyboard
    /\ m_provider \in BOOLEAN
    /\ m_sessions = NoSessions
    /\ m_clients = {}
    /\ now = 0
    /\ log = <<>>
    /\ polls = 0

DispatchReturned(call, origin, frame_ok) ==
    /\ Met(call.s, {}, frame_ok)
    /\ Commit(Observed(Emit(call.s, "resp", "dispatch", call.resp.deferred_id, origin,
                            call.resp.payload, call.resp.deferred)))

(* A call of HandleCommand(line) or HandleCommand(line, origin). *)
DispatchCommand ==
    /\ Cardinality({i \in DOMAIN log : log[i].ev = "line"}) < MaxDispatched
    /\ \E line \in DispatchLines, frame_ok \in BOOLEAN, origin \in Origins :
           DispatchReturned(HandleCommand(Observed(Emit(St({}, frame_ok), "line", "dispatch", 0,
                                                        origin, line, TRUE)),
                                          line, origin),
                            origin, frame_ok)

ConsumeReturned(exit) ==
    Commit(Emit(exit.s, "consume", "dispatch", 0, 0, "", exit.result))

(* A call of ConsumeExitRequest(). *)
DispatchConsume ==
    /\ Cardinality({i \in DOMAIN log : log[i].ev = "consume"}) < MaxConsumed
    /\ ConsumeReturned(ConsumeExitRequest(St({}, TRUE)))

DispatchNext == DispatchCommand \/ DispatchConsume \/ DirectPoll

DispatchSpec == DispatchInit /\ [][DispatchNext]_vars

----------------------------------------------------------------------------
(* The receive buffer of the server: the bytes of a client arrive in Data  *)
(* events that cut the stream anywhere.                                    *)

Fragments ==
    {<<"G">>, <<"E", "T">>, <<"\r">>, <<"\n">>,
     <<"E", "T", "\r", "\n", "N", "O", "P">>,
     <<"G", "E", "T", "\n", "G">>,
     <<"N", "O", "P", "\n", "G", "E", "T", "\n">>}

FragmentsLeft == MaxFragments - Cardinality({i \in DOMAIN log : log[i].ev = "data"})

(* The events the backend can hand out in one poll, one at a time. *)
SplitEvents ==
    {Connected(c) : c \in {d \in Clients : /\ ConnectsLeft > 0
                                            /\ d \notin m_clients
                                            /\ \A e \in 1..(d - 1) : e \in m_clients}}
        \cup {Data(c, fragment) : c \in m_clients,
                                  fragment \in IF FragmentsLeft > 0 THEN Fragments ELSE {}}
        \cup {Closed(c) : c \in m_clients}

SplitInit ==
    /\ m_pending = <<>>
    /\ m_next_id = 1
    /\ m_close_after_response \in BOOLEAN
    /\ m_token_frame_spacing = 0
    /\ m_macro_interkey_frames = DefaultInterkey
    /\ Configured
    /\ m_requests = 0
    /\ m_success = 0
    /\ m_failures = 0
    /\ m_exit_requested = FALSE
    /\ g_keyboard_processor = NewKeyboard
    /\ m_provider = TRUE
    /\ m_sessions = NoSessions
    /\ m_clients = {}
    /\ now = 0
    /\ log = <<>>
    /\ polls = 0

(* One tick of the host with one event of the backend. *)
SplitTick ==
    \E event \in SplitEvents, frame_ok \in BOOLEAN :
    \E send_fail \in {{}} \cup {{c} : c \in Addressees(<<event>>)} :
        Ticked(Poll(St(send_fail, frame_ok), <<event>>), send_fail, frame_ok)

SplitNext == SplitTick

SplitSpec == SplitInit /\ [][SplitNext]_vars

----------------------------------------------------------------------------
(* The TYPE compiler on quoted strings and delay tokens: one TYPE line of  *)
(* a client is compiled and queued, then the sink is polled.  The strings  *)
(* hold a form feed, a character symbol_map has no key for; the numerals   *)
(* are zero, small, the largest unsigned long, one beyond it and one       *)
(* beyond the largest uint32_t.                                            *)

QuotedTexts ==
    {<<"a", "b">>, <<"a", "\f">>, <<"\f", "B">>, <<"\f">>}

Quoted(text) == <<"\"">> \o text \o <<"\"">>

DelayTexts ==
    {<<"0", "m", "s">>,
     <<"2", "m", "s">>,
     ULONG_MAX \o <<"m", "s">>,
     <<"9", "9", "9", "9", "9", "9", "9", "9", "9", "9",
       "9", "9", "9", "9", "9", "9", "9", "9", "9", "9", "m", "s">>,
     <<"0", "f", "r", "a", "m", "e", "s">>,
     <<"1", "f", "r", "a", "m", "e">>,
     <<"2", "f", "r", "a", "m", "e", "s">>,
     <<"4", "2", "9", "4", "9", "6", "7", "2", "9", "6", "f", "r", "a", "m", "e", "s">>}

CompileTexts ==
    {Quoted(text) : text \in QuotedTexts} \cup DelayTexts \cup {<<"A">>, <<"G", "E", "T">>}

CompileCommand == CommandAmong(TypeLines(CompileTexts, MaxCompileTokens), {SetMin(Clients)})

CompileNext == CompileCommand \/ DirectPoll \/ ClockTick

CompileSpec == TypeInit /\ [][CompileNext]_vars

----------------------------------------------------------------------------
(* The sink with its Poll calls numbered: plans with keys, frame delays of *)
(* one and two frames and a millisecond delay are queued, and every Poll   *)
(* that changes the queue leaves in the log how far each queued request    *)
(* had got before it and after it.                                         *)

TimedActions ==
    {make_key_action("Press", "A"), make_key_action("Down", "Shift"),
     make_delay_ms_action(1)}
        \cup {make_delay_frames_action(n) : n \in 1..MaxTimedFrames}

TimedPlans ==
    [actions : SeqsUpTo(TimedActions, ActionsLeft(MaxTimedActions)), request_frame : BOOLEAN]

TimedExecute ==
    /\ Len(ExecEntries) < MaxRequests
    /\ \E plan \in TimedPlans, origin \in {SetMin(Clients)} :
           Executed(SinkExecute(St({}, TRUE), plan, origin, TRUE, TRUE, "recorder"), origin)

(* next_action of every queued request, by request id. *)
Progress(pending) ==
    [id \in {pending[i].id : i \in DOMAIN pending} |->
        LET i == CHOOSE j \in DOMAIN pending : pending[j].id = id
        IN pending[i].next_action]

TimedPolled(s) ==
    /\ s.pending # m_pending
    /\ Commit(Emit(s, "polled", "poll", 0, 0,
                   [before |-> Progress(m_pending), after |-> Progress(s.pending)], TRUE))

TimedPoll == TimedPolled(SinkPoll(St({}, TRUE)))

TimedNext == TimedExecute \/ TimedPoll \/ ClockTick

TimedSpec == SinkInit /\ [][TimedNext]_vars

----------------------------------------------------------------------------
(* Reading the log. *)

(* The places of the entries of one kind. *)
Idx(ev) == {i \in DOMAIN log : log[i].ev = ev}

(* The calls a Poll makes on behalf of a request. *)
PollCalls == {i \in DOMAIN log : log[i].src = "poll" /\ log[i].ev \in {"key", "frame", "send"}}

(* Two entries i < j were made by the same handler call: no call started   *)
(* after entry i up to entry j.                                            *)
SameCall(i, j) == \A k \in (i + 1)..j : ~log[k].first

(* The place of the Execute call that queued request id. *)
ExecPos(id) == CHOOSE e \in Idx("exec") : log[e].id = id

(* The plan request id was queued with. *)
PlanOf(id) == log[ExecPos(id)].arg

(* The PRESS/DOWN/UP commands of a plan, in plan order. *)
RECURSIVE KeyCommands(_)
KeyCommands(actions) ==
    IF actions = <<>> THEN <<>>
    ELSE LET a == Head(actions)
         IN (IF a.kind \in KeyKinds THEN <<KeyVerb(a.kind) \o " " \o a.key>> ELSE <<>>)
                \o KeyCommands(Tail(actions))

(* The keyboard commands sent so far for request id, in the order sent. *)
KeysSent(id) ==
    LET mine == SelectSeq(log, LAMBDA e : e.ev = "key" /\ e.id = id)
    IN [i \in DOMAIN mine |-> mine[i].arg]

----------------------------------------------------------------------------
(* C1: for two requests accepted by Execute in the order r1, r2, every     *)
(* keyboard-handler call made for r1 comes before every keyboard-handler   *)
(* call made for r2, over every interleaving of Execute, Poll and          *)
(* CancelClient.                                                           *)
C1_RequestOrder ==
    \A i \in Idx("key") : \A j \in Idx("key") :
        ExecPos(log[i].id) < ExecPos(log[j].id) => i < j

(* Two requests have both reached the keyboard, the first with two keys. *)
C1_Witness ==
    \E i \in Idx("key") : \E j \in Idx("key") : \E k \in Idx("key") :
        /\ i < j /\ j < k
        /\ log[i].id = log[j].id /\ log[j].id # log[k].id

(* C2: for every request that ran to completion (it was popped by Poll,    *)
(* not cancelled), the PRESS/DOWN/UP calls made for it are exactly the key *)
(* actions of its plan, in plan order, each made once.                     *)
C2_KeysFollowPlan ==
    \A d \in Idx("done") : KeysSent(log[d].id) = KeyCommands(PlanOf(log[d].id))

(* A completed request whose plan holds two different key actions around a delay. *)
C2_Witness ==
    \E d \in Idx("done") :
        /\ Len(PlanOf(log[d].id)) = 3
        /\ Len(KeysSent(log[d].id)) = 2
        /\ KeysSent(log[d].id)[1] # KeysSent(log[d].id)[2]

(* C3: after CancelClient(c), no Poll sends a payload, calls the keyboard  *)
(* handler or calls the frame provider for a request that was queued with  *)
(* origin c before the cancel, also when some of its keys were injected.   *)
C3_NothingAfterCancel ==
    \A k \in Idx("close") : \A e \in Idx("exec") : \A j \in PollCalls :
        (/\ log[k].src = "cancel"
         /\ e < k /\ k < j
         /\ log[e].client = log[k].client)
            => log[j].id # log[e].id

(* A request is cancelled after one of its keys was injected and while it  *)
(* had more to do, and a Poll has run since.                               *)
C3_Witness ==
    \E k \in Idx("cancel") : \E i \in Idx("key") : \E j \in PollCalls :
        /\ i < k /\ k < j
        /\ log[i].id = log[k].id
        /\ Len(KeyCommands(PlanOf(log[k].id))) = 2

(* PollDue is exactly when a call of Poll changes the queue. *)
PollDueIsEnabled ==
    PollDue <=> \E send_fail \in SUBSET ReplyClients, frame_ok \in FrameAnswers :
                    SinkPoll(St(send_fail, frame_ok)).pending # m_pending

(* The ids the sink can give out within the bound on Execute calls. *)
RequestIds == 1..MaxRequests

(* Execute has returned the deferred marker with this id. *)
Deferred(id) == \E i \in Idx("ret") : log[i].ok /\ log[i].id = id

(* The calls of the send hook made for request id. *)
Replies(id) == {i \in Idx("send") : log[i].src = "poll" /\ log[i].id = id}

(* The send hook was called once for request id, with its origin client. *)
RepliedOnce(id) ==
    /\ Cardinality(Replies(id)) = 1
    /\ \A i \in Replies(id) : log[i].client = log[ExecPos(id)].client

(* CancelClient has removed request id from the queue. *)
Cancelled(id) == \E i \in Idx("cancel") : log[i].id = id

(* C4 as stated: while Poll keeps being called and the clock advances, every *)
(* request whose Execute returned deferred=true eventually has the send    *)
(* hook called exactly once with its origin client, never a second time.   *)
C4_DeferredReplyOnce ==
    /\ [](\A id \in RequestIds : Cardinality(Replies(id)) <= 1)
    /\ \A id \in RequestIds : Deferred(id) ~> RepliedOnce(id)

(* C4, amended: while Poll keeps being called and the clock advances, every *)
(* request whose Execute returned deferred=true eventually either has the  *)
(* send hook called exactly once with its origin client or is removed by   *)
(* CancelClient, after which it gets no reply; no request gets two.        *)
C4_DeferredReplyOnceUnlessCancelled ==
    /\ [](\A id \in RequestIds :
            /\ Cardinality(Replies(id)) <= 1
            /\ Cancelled(id) => Replies(id) = {})
    /\ \A id \in RequestIds : Deferred(id) ~> (RepliedOnce(id) \/ Cancelled(id))

(* A deferred request got its one reply in a later Poll than the one that *)
(* pressed its key, and another deferred request was cancelled.            *)
C4_Witness ==
    \E id \in RequestIds : \E other \in RequestIds :
        /\ Deferred(id) /\ RepliedOnce(id)
        /\ \E k \in Idx("key") : \A r \in Replies(id) :
               log[k].id = id /\ k < r /\ ~SameCall(k, r)
        /\ Deferred(other) /\ Cancelled(other)

(* The server's own calls of Send, and the sink's calls of its send hook. *)
ServerSends == {k \in Idx("send") : log[k].src = "server"}

SinkSends == {k \in Idx("send") : log[k].src = "poll"}

(* The requests the sink queued for a deferred answer, by id. *)
DeferredIds == {log[e].id : e \in {x \in Idx("exec") : log[x].ok}}

InFlight == {i \in DOMAIN m_pending : m_pending[i].notify_completion}

(* The calls of the completion callback made for request id. *)
Completions(id) == {k \in Idx("complete") : log[k].id = id}

C7_DeferredIdsIncrease ==
    \A j \in Idx("ret") :
        log[j].ok =>
            /\ log[j].id # 0
            /\ \A i \in Idx("ret") : (i < j /\ log[i].ok) => log[i].id < log[j].id

(* Two deferred ids were returned, the second after the first request had  *)
(* left the queue.                                                         *)
C7_Witness ==
    \E i \in Idx("ret") : \E j \in Idx("ret") : \E d \in Idx("done") \cup Idx("cancel") :
        /\ i < d /\ d < j
        /\ log[i].ok /\ log[j].ok
        /\ log[d].id = log[i].id

(* The frame-provider calls and the keyboard calls Poll made for requests  *)
(* that ask for a frame.                                                   *)
PollFrames == {j \in Idx("frame") : log[j].src = "poll"}

PollKeys == {i \in Idx("key") : log[i].src = "poll"}

(* C8: when a TYPE command that asks for a frame is compiled by the        *)
(* dispatcher and queued, the frame provider is called in a later Poll     *)
(* than the one that makes the last keyboard call of the request, for      *)
(* every inter-token spacing and every interkey setting, 0 included.       *)
C8_CompiledFrameAfterKeys ==
    \A j \in PollFrames : \A i \in PollKeys :
        log[i].id = log[j].id => i < j /\ \E k \in (i + 1)..j : log[k].first

(* With spacing 0 and interkey frames 0, a compiled request with a key got *)
(* its frame.                                                              *)
C8_Witness ==
    /\ m_token_frame_spacing = 0
    /\ m_macro_interkey_frames = 0
    /\ \E j \in PollFrames : \E i \in PollKeys : log[i].id = log[j].id

(* C9: for any plan handed to Execute with request_frame set, the frame    *)
(* provider is never invoked in the Poll call that dispatched the          *)
(* request's last key action, for every inter_token_frame_delay.           *)
C9_FrameAfterLastKeyPoll ==
    \A j \in Idx("frame") : \A i \in Idx("key") :
        (i < j /\ log[i].src = "poll" /\ log[j].src = "poll" /\ log[i].id = log[j].id)
            => ~SameCall(i, j)

(* C10: in one Poll call at most one PRESS, DOWN or UP of a given request  *)
(* is sent to the keyboard handler.                                        *)
C10_OneKeyPerPoll ==
    \A i \in Idx("key") : \A j \in Idx("key") :
        (i < j /\ log[i].src = "poll" /\ log[j].src = "poll" /\ log[i].id = log[j].id)
            => ~SameCall(i, j)

(* Two adjacent key actions of one plan were sent with no spacing configured. *)
C10_Witness ==
    /\ m_token_frame_spacing = 0
    /\ \E i \in Idx("key") :
        /\ i + 1 \in Idx("key")
        /\ log[i].id = log[i + 1].id

(* C11: within one Poll call the keys sent, the frame asked for, the reply *)
(* and the completion all belong to one request: a request that completes  *)
(* in a Poll is not followed, in the same Poll, by any action of the       *)
(* request queued behind it.                                               *)
C11_OneRequestPerPoll ==
    \A i \in DOMAIN log : \A j \in DOMAIN log :
        (i < j /\ log[i].src = "poll" /\ log[j].src = "poll" /\ SameCall(i, j))
            => log[i].id = log[j].id

(* The line a response of HandleCommand answers: the last line cut before it. *)
LineAnswered(r) ==
    CHOOSE l \in Idx("line") : l < r /\ \A k \in (l + 1)..(r - 1) : log[k].ev # "line"

(* The request with this id has left the queue before entry k was made. *)
LeftQueueBefore(id, k) ==
    \E d \in Idx("done") \cup Idx("cancel") : d < k /\ log[d].id = id

(* The TYPE requests the sink has queued. *)
QueuedExecs == {e \in Idx("exec") : log[e].id > 0}

(* C12: while a TYPE from client A is still pending in the sink's queue, a *)
(* GET sent by client B is not answered; B's GET reply is sent only after  *)
(* A's TYPE has completed.                                                 *)
C12_GetWaitsForOtherClient ==
    \A k \in Idx("send") : \A e \in QueuedExecs :
        (/\ log[k - 1].ev = "resp"
         /\ log[LineAnswered(k - 1)].arg = <<"G", "E", "T">>
         /\ e < LineAnswered(k - 1)
         /\ log[e].client # log[k].client)
            => LeftQueueBefore(log[e].id, k)

(* C13: for two lines l1 then l2 received from the same client on one      *)
(* connection, l2 is not answered before l1 has been answered, also when   *)
(* l1 is a TYPE whose reply is deferred to the sink and l2 is answered     *)
(* synchronously.                                                          *)
C13_AnswersInArrivalOrder ==
    \A r1 \in Idx("resp") : \A r2 \in Idx("resp") :
        (/\ r1 < r2
         /\ log[r1].client = log[r2].client
         /\ \A k \in r1..r2 : log[k].ev \notin {"connect", "drop", "close"}
         /\ log[r1].ok
         /\ ~log[r2].ok)
            => \E k \in SinkSends : k < r2 /\ log[k].id = log[r1].id

(* The keyboard-handler calls the inline sink makes when it executes a     *)
(* plan, in the order made.                                                *)
ImmediateCalls(actions, origin) ==
    LET run == ImmediateExecute([St({}, TRUE) EXCEPT !.log = <<>>],
                                [actions |-> actions, request_frame |-> FALSE], origin)
        keys == SelectSeq(run.s.log, LAMBDA e : e.ev = "key")
    IN [i \in DOMAIN keys |-> keys[i].arg]

(* The plan has no delay action. *)
NoDelays(actions) == \A i \in DOMAIN actions : ~is_delay_action(actions[i].kind)

(* Poll has asked for the frame of request id. *)
FrameAsked(id) == \E j \in Idx("frame") : log[j].id = id

(* C14: for a plan with request_frame=false and no delay actions, the      *)
(* deferred sink, polled until the request leaves the queue without a      *)
(* cancellation, has made the same sequence of keyboard-handler calls as   *)
(* the inline sink makes when it executes the plan synchronously.          *)
C14_QueuedKeysAsInline ==
    \A d \in Idx("done") :
        (NoDelays(PlanOf(log[d].id)) /\ ~FrameAsked(log[d].id))
            => KeysSent(log[d].id) = ImmediateCalls(PlanOf(log[d].id), log[d].client)

(* A request without delays and without a frame has run to its end with a  *)
(* key press, a key held down and a second key press.                      *)
C14_Witness ==
    \E d \in Idx("done") :
        /\ NoDelays(PlanOf(log[d].id)) /\ ~FrameAsked(log[d].id)
        /\ KeysSent(log[d].id) = <<"PRESS A", "DOWN Shift", "PRESS A">>

(* The keyboard handler has refused a key of request id. *)
KeyRefused(id) == \E k \in Idx("key") : log[k].id = id /\ ~log[k].ok

(* The frame, if one was asked for, was captured and the reply, if one was *)
(* sent, was accepted by the socket.                                       *)
FrameAndSendOk(id) ==
    \A j \in Idx("frame") \cup Idx("send") :
        (log[j].src = "poll" /\ log[j].id = id) => log[j].ok

(* C15: when the keyboard handler refuses a key action, the deferred sink  *)
(* still sends every remaining key action of the plan in order, and the    *)
(* request completes with success (the completion callback is called with  *)
(* true) as long as the frame capture and the reply send succeed.          *)
C15_RefusedKeyIsIgnored ==
    \A d \in Idx("done") :
        KeyRefused(log[d].id) =>
            /\ KeysSent(log[d].id) = KeyCommands(PlanOf(log[d].id))
            /\ FrameAndSendOk(log[d].id) =>
                   /\ log[d].ok
                   /\ \A c \in Completions(log[d].id) : log[c].ok
                   /\ Deferred(log[d].id) => Completions(log[d].id) # {}

(* The first key of a request was refused, its second key was sent in a   *)
(* later Poll, its frame was captured and sent, and the callback was       *)
(* called with true.                                                       *)
C15_Witness ==
    \E d \in Idx("done") : \E i \in Idx("key") : \E j \in Idx("key") :
        /\ i < j /\ j < d
        /\ log[i].id = log[d].id /\ log[j].id = log[d].id
        /\ ~log[i].ok /\ log[j].ok
        /\ FrameAsked(log[d].id)
        /\ \E c \in Completions(log[d].id) : log[c].ok

(* The calls of the close hook made by CancelClient. *)
CancelCloses == {k \in Idx("close") : log[k].src = "cancel"}

(* The first entry of the handler call that made entry k. *)
CallStart(k) == CHOOSE i \in 1..k : log[i].first /\ SameCall(i, k)

(* The requests of the client of close k that were in the queue when the   *)
(* CancelClient call that made it began.                                   *)
PendingAt(k) ==
    {e \in QueuedExecs : /\ e < CallStart(k)
                         /\ log[e].client = log[k].client
                         /\ ~LeftQueueBefore(log[e].id, CallStart(k))}

(* The calls of the completion callback the same CancelClient call made    *)
(* for request id.                                                         *)
CancelCallbacks(k, id) ==
    {c \in Idx("complete") : /\ log[c].src = "cancel"
                             /\ log[c].id = id
                             /\ CallStart(k) <= c
                             /\ SameCall(CallStart(k), c)}

(* The CancelClient call that closed at k has removed every request of its *)
(* client, and made each completion call before the close and with failure. *)
CancelRemoves(k) ==
    /\ \A e \in PendingAt(k) :
           /\ \E x \in Idx("cancel") : CallStart(k) <= x /\ x < k /\ log[x].id = log[e].id
           /\ \A c \in CancelCallbacks(k, log[e].id) : c < k /\ ~log[c].ok
    /\ k = Len(log) => \A i \in DOMAIN m_pending : m_pending[i].origin # log[k].client

ExecuteStep == Len(log') > Len(log) /\ log'[Len(log')].ev = "ret"

(* What a call of Execute with a plan that is not empty has done. *)
ExecuteQueued ==
    LET e == Len(log) + 1
        r == Len(log) + 2
        request == m_pending'[Len(m_pending')]
    IN /\ Len(log') = r /\ SubSeq(log', 1, Len(log)) = log
       /\ log'[e].ev = "exec"
       /\ Len(m_pending') = Len(m_pending) + 1
       /\ SubSeq(m_pending', 1, Len(m_pending)) = m_pending
       /\ request.id = log'[e].id
       /\ request.actions = log'[e].arg /\ request.actions # <<>>
       /\ request.next_action = 0
       /\ IF request.request_frame \/ m_close_after_response
          THEN /\ log'[r].ok
               /\ log'[r].arg = <<TRUE, "">>
               /\ log'[r].id = request.id
               /\ \A x \in DOMAIN log :
                      log[x].ev \in {"exec", "ret"} => log[x].id # log'[r].id
          ELSE /\ ~log'[r].ok
               /\ log'[r].arg = <<TRUE, "OK\n">>
               /\ log'[r].id = 0

(* C17: Execute of a non-empty plan on the deferred sink calls neither the *)
(* keyboard handler nor the frame provider nor the send hook; it returns   *)
(* (ok=true, empty payload, deferred=true, a deferred_id not given out     *)
(* before) exactly when the plan requests a frame or close_after_response  *)
(* is set, and otherwise returns the non-deferred (ok=true, "OK\n") while  *)
(* the whole plan is queued for later polls.                               *)
C17_ExecuteOnlyQueues == [][ExecuteStep => ExecuteQueued]_vars

(* Execute has just deferred a plan without a frame because every response *)
(* closes, after an earlier request has left the queue.                    *)
C17_Witness ==
    /\ log # <<>> /\ log[Len(log)].ev = "ret"
    /\ log[Len(log)].ok
    /\ m_pending # <<>> /\ m_pending[Len(m_pending)].next_action = 0
    /\ ~m_pending[Len(m_pending)].request_frame
    /\ Idx("done") # {}

(* The completions by Poll of the requests Execute deferred. *)
DeferredDone == {d \in Idx("done") : log[ExecPos(log[d].id)].ok}

(* The entry of the reply of the request completed at d: the one before    *)
(* the callback, or before the close when every response closes.           *)
ReplyPos(d) == IF m_close_after_response THEN d - 3 ELSE d - 2

(* C18: when Poll completes a deferred request, the reply is sent to the   *)
(* originating client, then (only when close_after_response is set) the    *)
(* originating connection is closed, then the completion callback is       *)
(* called, once, then the request leaves the queue; the callback reports   *)
(* failure when the frame provider fails or the send fails, and success    *)
(* otherwise.                                                              *)
C18_CompletionOrder ==
    \A d \in DeferredDone :
        LET id == log[d].id
            origin == log[ExecPos(id)].client
            c == d - 1
            k == ReplyPos(d)
        IN /\ k \in Idx("send")
           /\ log[k].src = "poll" /\ log[k].id = id /\ log[k].client = origin
           /\ SameCall(k, d)
           /\ IF m_close_after_response
              THEN /\ log[d - 2].ev = "close"
                   /\ log[d - 2].id = id /\ log[d - 2].client = origin
              ELSE \A x \in Idx("close") : log[x].id # id
           /\ log[c].ev = "complete" /\ log[c].src = "poll" /\ log[c].id = id
           /\ Completions(id) = {c}
           /\ log[c].ok = (log[k].ok /\ \A j \in Idx("frame") : log[j].id = id => log[j].ok)
           /\ \A i \in DOMAIN m_pending : m_pending[i].id # id

(* A deferred request was completed with a frame that was captured and a   *)
(* reply the socket refused, the connection was closed and the callback    *)
(* was called with failure; another was completed with success.            *)
C18_Witness ==
    \E d1 \in DeferredDone : \E d2 \in DeferredDone :
        /\ m_close_after_response
        /\ ~log[d1].ok /\ log[d2].ok
        /\ \E j \in Idx("frame") : log[j].id = log[d1].id /\ log[j].ok
        /\ ~log[ReplyPos(d1)].ok

(* While a request that asks for a frame is in the queue, nothing was sent *)
(* for it, its frame was not asked for and its callback was not called.    *)
QuietWhileQueued ==
    \A i \in DOMAIN m_pending : \A k \in DOMAIN log :
        (m_pending[i].request_frame /\ log[k].id = m_pending[i].id)
            => log[k].ev \notin {"send", "frame", "complete"}

(* The entries the step adds to the log. *)
NewLog == SubSeq(log', Len(log) + 1, Len(log'))

(* The step is a Poll that completes the request. *)
CompletedBy(request) ==
    \E d \in DOMAIN NewLog : NewLog[d].ev = "done" /\ NewLog[d].id = request.id

(* The completing Poll asks for the frame once, then sends it to the       *)
(* origin of the request, then calls the callback, with success when the   *)
(* frame was captured and the send was accepted.                           *)
FrameServed(request) ==
    LET mine(ev) == {k \in DOMAIN NewLog : NewLog[k].ev = ev /\ NewLog[k].id = request.id}
    IN /\ Cardinality(mine("frame")) = 1
       /\ Cardinality(mine("send")) = 1
       /\ Cardinality(mine("complete")) = 1
       /\ \A f \in mine("frame") : \A k \in mine("send") : \A c \in mine("complete") :
              /\ f < k /\ k < c
              /\ NewLog[k].client = request.origin
              /\ NewLog[f].ok => NewLog[k].arg = "FRAME"
              /\ (NewLog[f].ok /\ NewLog[k].ok) => NewLog[c].ok

PlanOfLine(line) ==
    CompilePlan(trim(SubSeq(line, find(line, " ") + 1, Len(line))), m_macro_interkey_frames)

(* The keyboard commands the inline sink sent between two entries. *)
InlineKeys(l, r) ==
    LET keys == SelectSeq(SubSeq(log, l, r), LAMBDA e : e.ev = "key" /\ e.src = "immediate")
    IN [i \in DOMAIN keys |-> keys[i].arg]

(* C20: the dispatcher hands a non-empty TYPE plan to the configured sink  *)
(* exactly when a sink is configured, the origin client handle is not zero *)
(* or the sink is not flagged client-required, the plan requests a frame   *)
(* or queueing of non-frame commands is enabled, and deferred frames are   *)
(* enabled.  In every other case the plan is executed on the inline sink:  *)
(* all its key actions reach the keyboard handler before HandleCommand     *)
(* returns and the response is not deferred.                               *)
C20_SinkChoice ==
    \A l \in Idx("line") : \A r \in Idx("resp") :
        LET plan == PlanOfLine(log[l].arg)
            origin == log[l].client
            handed == \E e \in l..r : /\ log[e].ev = "exec" /\ log[e].id > 0
                                      /\ log[e].arg = plan.actions
                                      /\ log[e].client = origin
        IN (l < r /\ plan.actions # <<>>) =>
               /\ handed <=> /\ m_type_sink
                             /\ (origin # 0 \/ ~m_type_sink_requires_client)
                             /\ (plan.request_frame \/ m_queue_non_frame_commands)
                             /\ m_allow_deferred_frames
               /\ handed => InlineKeys(l, r) = <<>>
               /\ ~handed => /\ InlineKeys(l, r) = KeyCommands(plan.actions)
                             /\ QueuedExecs = {}
                             /\ ~log[r].ok

(* With the settings of the service a TYPE line with a key and the frame,  *)
(* handled without an origin, was executed inline: the key was pressed and *)
(* the frame read before the response.                                     *)
C20_Witness ==
    /\ Configured
    /\ \E l \in Idx("line") : \E k \in Idx("key") : \E f \in Idx("frame") : \E r \in Idx("resp") :
           /\ l < k /\ k < f /\ f < r
           /\ log[l].client = 0
           /\ log[k].src = "immediate"
           /\ log[r].arg = "FRAME"

----------------------------------------------------------------------------
(* The calls of the keyboard command handler in the log. *)

(* The key codes that were handed to the key injector. *)
InjectedKeys == {log[i].arg[1] : i \in Idx("inject")}

(* The entry a call of the handler that began at c ended with. *)
KbdEnd(c) == SetMin({r \in c..Len(log) : log[r].ev \in {"kbdret", "throw"}})

KbdVerb(c) == Text(to_upper(FirstToken(log[c].arg.command).value))

KbdSucceeded(c) == log[KbdEnd(c)].ev = "kbdret" /\ log[KbdEnd(c)].ok

(* The events the call handed to the key injector. *)
Injected(c) ==
    LET events == SelectSeq(SubSeq(log, c, KbdEnd(c)), LAMBDA e : e.ev = "inject")
    IN [i \in DOMAIN events |-> events[i].arg]

(* The last successful DOWN of the key has been followed by no successful  *)
(* UP of it and by no reset.                                               *)
DownAndNotReleased(key) ==
    \E c \in Idx("kbd") :
        /\ KbdVerb(c) = "DOWN" /\ KbdSucceeded(c) /\ Injected(c) = <<<<key, TRUE>>>>
        /\ \A d \in Idx("kbd") :
               d > c => ~(/\ KbdSucceeded(d)
                          /\ \/ KbdVerb(d) = "UP" /\ Injected(d) = <<<<key, FALSE>>>>
                             \/ KbdVerb(d) = "RESET")
        /\ \A d \in Idx("reset") : d < c

(* C21: a key code is in the held set exactly when the most recent         *)
(* successful DOWN for it has been followed by no successful UP for it and *)
(* by no RESET; in particular PRESS never adds a key to the held set.  (A   *)
(* key that was never handed to the injector is neither held nor pushed.)  *)
C21_HeldIffDownNotReleased ==
    \A key \in InjectedKeys \cup HeldKeys : key \in HeldKeys <=> DownAndNotReleased(key)

(* A was pushed and released and then pressed, Shift was pushed after the  *)
(* release of A: only Shift is held.                                       *)
C21_Witness ==
    /\ HeldKeys = {"KBD_leftshift"}
    /\ \E c, d, e \in Idx("kbd") :
           /\ c < d /\ d < e
           /\ KbdVerb(c) = "DOWN" /\ KbdSucceeded(c) /\ Injected(c) = <<<<"KBD_a", TRUE>>>>
           /\ KbdVerb(d) = "UP" /\ KbdSucceeded(d) /\ Injected(d) = <<<<"KBD_a", FALSE>>>>
           /\ KbdVerb(e) = "DOWN" /\ KbdSucceeded(e)
    /\ Len(log) > 0 /\ log[Len(log)].ev = "kbdret"

(* The payloads of the failures of PRESS, DOWN and UP. *)
KeyFailures ==
    {"ERR missing key\n", "ERR unexpected arguments\n", "ERR unknown key\n",
     "ERR key already down\n", "ERR key not down\n"}

(* C22: a PRESS, DOWN or UP that does not succeed (unknown key, PRESS or   *)
(* DOWN of a held key, UP of a key that is not held, missing or extra      *)
(* arguments) returns an ERR payload, hands no event to the key injector   *)
(* and leaves the held set as it was.                                      *)
C22_FailureOnlyAnswers ==
    \A c \in Idx("kbd") :
        (KbdVerb(c) \in {"PRESS", "DOWN", "UP"} /\ ~KbdSucceeded(c)) =>
            /\ log[KbdEnd(c)].ev = "kbdret"
            /\ log[KbdEnd(c)].arg.payload \in KeyFailures
            /\ Injected(c) = <<>>
            /\ log[KbdEnd(c)].arg.held = log[c].arg.held

(* The key a command names, when its argument is the name of one key. *)
KbdNamesKey(c) == ParseKeyName(FirstToken(log[c].arg.command).remainder)

KbdKey(c) == ParsedKey(FirstToken(log[c].arg.command).remainder)

(* The call of the handler that follows the call c, if any. *)
NextKbd(c) == {d \in Idx("kbd") : d > c /\ \A e \in Idx("kbd") : e > c => d <= e}

(* C23: RESET always succeeds; it hands the key injector exactly one       *)
(* release event (K, false) for every key that was held and none for any   *)
(* other key, and leaves the held set empty, so that an UP of a key that   *)
(* was held, made as the next command, fails with "key not down".          *)
C23_ResetReleasesAll ==
    \A c \in Idx("kbd") :
        KbdVerb(c) = "RESET" =>
            /\ KbdSucceeded(c)
            /\ log[KbdEnd(c)].arg.payload = "OK\n"
            /\ Len(Injected(c)) = Cardinality(log[c].arg.held)
            /\ Range(Injected(c)) = {<<key, FALSE>> : key \in log[c].arg.held}
            /\ log[KbdEnd(c)].arg.held = {}
            /\ \A d \in NextKbd(c) :
                   (KbdVerb(d) = "UP" /\ KbdNamesKey(d) /\ KbdKey(d) \in log[c].arg.held) =>
                       /\ ~KbdSucceeded(d)
                       /\ log[KbdEnd(d)].arg.payload = "ERR key not down\n"
                       /\ Injected(d) = <<>>

(* A and Shift were held when RESET was called, and the next command was   *)
(* UP A.                                                                   *)
C23_Witness ==
    \E c \in Idx("kbd") :
        /\ KbdVerb(c) = "RESET"
        /\ log[c].arg.held = {"KBD_a", "KBD_leftshift"}
        /\ \E d \in NextKbd(c) : KbdVerb(d) = "UP" /\ KbdNamesKey(d) /\ KbdKey(d) = "KBD_a"

(* Every DOWN of a key is followed, later, by an UP of that key. *)
DownsArePaired ==
    \A c \in Idx("kbd") :
        (KbdVerb(c) = "DOWN" /\ KbdNamesKey(c)) =>
            \E d \in Idx("kbd") :
                d > c /\ KbdVerb(d) = "UP" /\ KbdNamesKey(d) /\ KbdKey(d) = KbdKey(c)

(* C24: after a sequence of keyboard commands in which every DOWN of a key *)
(* is later matched by an UP of that key, also when the commands come from *)
(* the <Key>Down and <Key>Up tokens and the quoted strings of TYPE,        *)
(* ActiveKeys() is empty.                                                  *)
C24_PairedLeavesNoKey ==
    DownsArePaired => ActiveKeys(g_keyboard_processor) = {}

(* TYPE ShiftDown "B" ShiftUp was executed, and between a DOWN A and an    *)
(* UP A that both succeeded: every DOWN has its UP.                        *)
C24_Witness ==
    /\ DownsArePaired
    /\ \E t \in Idx("type") : log[t].arg = "ShiftDown \"B\" ShiftUp"
    /\ \E c, d \in Idx("kbd") :
           /\ c < d
           /\ log[c].first /\ KbdVerb(c) = "DOWN" /\ KbdSucceeded(c) /\ KbdKey(c) = "KBD_a"
           /\ log[d].first /\ KbdVerb(d) = "UP" /\ KbdSucceeded(d) /\ KbdKey(d) = "KBD_a"
           /\ \E t \in Idx("type") : c < t /\ t < d

(* C25: every call of the keyboard command handler, whatever the line (a   *)
(* valid verb, an unknown verb, an empty line), increases commands by one  *)
(* and exactly one of success and failures by one, according to the ok     *)
(* flag of the response; so commands = success + failures between calls.   *)
C25_CountedOncePerCall ==
    /\ \A c \in Idx("kbd") :
           LET r == KbdEnd(c)
               before == log[c].arg.counted
               after == log[r].arg.counted
           IN /\ log[r].ev = "kbdret"
              /\ after[1] = before[1] + 1
              /\ after[2] = before[2] + (IF log[r].ok THEN 1 ELSE 0)
              /\ after[3] = before[3] + (IF log[r].ok THEN 0 ELSE 1)
    /\ g_keyboard_processor.m_commands
           = g_keyboard_processor.m_success + g_keyboard_processor.m_failures

----------------------------------------------------------------------------
(* The calls of HandleCommand made directly on the dispatcher. *)

(* The response of the call that began with the line at l. *)
RespOf(l) == SetMin({r \in l..Len(log) : log[r].ev = "resp"})

(* The counters, the exit flag and the queue before and after the call. *)
Before(l) == log[l + 1].arg

After(l) == log[RespOf(l) + 1].arg

(* The first word of a line. *)
VerbOf(line) == FirstToken(line).value

(* A command verb written in another case. *)
WrongCase(line) == to_upper(VerbOf(line)) \in CommandNames /\ VerbOf(line) \notin CommandNames

(* C26: a recognised verb written in the wrong case is answered with       *)
(* "ERR commands are case-sensitive" and has no other effect: requests,    *)
(* success and failures are unchanged, the keyboard handler is not called, *)
(* nothing is queued in the sink and the exit flag is not set.             *)
C26_WrongCaseOnlyAnswers ==
    \A l \in Idx("line") :
        WrongCase(log[l].arg) =>
            /\ log[RespOf(l)].arg = "ERR commands are case-sensitive\n"
            /\ ~log[RespOf(l)].ok
            /\ RespOf(l) = l + 2
            /\ After(l) = Before(l)

(* "type A" was handed to the dispatcher for a client after a GET had been *)
(* counted.                                                                *)
C26_Witness ==
    \E l \in Idx("line") :
        /\ log[l].arg = <<"t", "y", "p", "e", " ", "A">>
        /\ log[l].client # 0
        /\ Before(l).requests = 1
        /\ Len(log) > RespOf(l)

(* C27: every GET or VIEW increases requests by one and exactly one of     *)
(* success (a frame is returned) and failures (the reply is ERR <reason>)  *)
(* by one, also when no frame provider is configured or the provider       *)
(* refuses: the reply is then an ERR payload and one failure is counted.   *)
C27_FrameRequestCounted ==
    \A l \in Idx("line") :
        VerbOf(log[l].arg) \in {<<"G", "E", "T">>, <<"V", "I", "E", "W">>} =>
            LET framed == log[RespOf(l)].arg = "FRAME"
            IN /\ framed \/ log[RespOf(l)].arg \in {"ERR frame\n", "ERR service unavailable\n"}
               /\ After(l).requests = Before(l).requests + 1
               /\ After(l).success = Before(l).success + (IF framed THEN 1 ELSE 0)
               /\ After(l).failures = Before(l).failures + (IF framed THEN 0 ELSE 1)

----------------------------------------------------------------------------
(* The exit flag in the server. *)

(* The drop at d follows, in the same call of HandleData, a reply that was *)
(* sent: with close_after_response off, the client is dropped because      *)
(* ConsumeExitRequest returned true.                                       *)
DroppedForExit(d) ==
    /\ log[d].ev = "drop"
    /\ ~log[d].first
    /\ ~m_close_after_response
    /\ log[d - 1].ev = "send" /\ log[d - 1].src = "server" /\ log[d - 1].ok
    /\ log[d - 1].client = log[d].client

(* The line whose handling reached the entry at d. *)
LineBefore(d) == SetMax({l \in 1..d : log[l].ev = "line"})

(* C28: EXIT sets a one-shot flag that the server consumes right after the *)
(* OK reply to the EXIT line; the client dropped because of the flag is    *)
(* always the client that sent EXIT, never the sender of a later command.  *)
C28_ExitDropsSender ==
    \A d \in DOMAIN log :
        DroppedForExit(d) =>
            /\ log[LineBefore(d)].client = log[d].client
            /\ VerbOf(log[LineBefore(d)].arg) = <<"E", "X", "I", "T">>
            /\ log[d - 1].arg = "OK\n"

----------------------------------------------------------------------------
(* The stream of bytes of a client and the lines cut from it. *)

(* The client connected once and was never dropped. *)
StaysConnected(c) ==
    /\ Cardinality({i \in Idx("connect") : log[i].client = c}) = 1
    /\ \A i \in Idx("drop") : log[i].client # c
    /\ c \in DOMAIN m_sessions

ArgsOf(ev, c) ==
    LET entries == SelectSeq(log, LAMBDA e : e.ev = ev /\ e.client = c)
    IN [i \in DOMAIN entries |-> entries[i].arg]

(* The bytes received from the client, whatever the Data events were. *)
Stream(c) == Flatten(ArgsOf("data", c))

(* The newline-terminated lines of a stream, each without its newline and  *)
(* without one carriage return before it, and what follows the last one.   *)
RECURSIVE Terminated_Lines(_)
Terminated_Lines(stream) ==
    LET pos == find(stream, "\n")
        cut == SubSeq(stream, 1, pos - 1)
    IN IF pos = 0 THEN <<>>
       ELSE <<IF cut # <<>> /\ cut[Len(cut)] = "\r" THEN SubSeq(cut, 1, Len(cut) - 1) ELSE cut>>
                \o Terminated_Lines(SubSeq(stream, pos + 1, Len(stream)))

RECURSIVE Unterminated(_)
Unterminated(stream) ==
    LET pos == find(stream, "\n")
    IN IF pos = 0 THEN stream ELSE Unterminated(SubSeq(stream, pos + 1, Len(stream)))

(* C29: for a client that stays connected, the lines handed to the         *)
(* dispatcher depend only on the concatenation of the bytes received from  *)
(* it: every newline-terminated line is dispatched exactly once, in order, *)
(* with one trailing carriage return removed and with the client's handle, *)
(* and the unterminated tail stays in the session buffer, neither          *)
(* dispatched nor answered.                                                *)
C29_LinesOfTheStream ==
    \A c \in Clients :
        StaysConnected(c) =>
            /\ ArgsOf("line", c) = Terminated_Lines(Stream(c))
            /\ Len(ArgsOf("resp", c)) = Len(Terminated_Lines(Stream(c)))
            /\ m_sessions[c] = Unterminated(Stream(c))

(* Client 1 sent G, then ET, a carriage return, a newline and NOP, then G: *)
(* GET was dispatched and answered, NOPG is left in the buffer.            *)
C29_Witness ==
    /\ StaysConnected(1)
    /\ ArgsOf("data", 1) = <<<<"G">>, <<"E", "T", "\r", "\n", "N", "O", "P">>, <<"G">>>>
    /\ ArgsOf("line", 1) = <<<<"G", "E", "T">>>>
    /\ Len(ArgsOf("resp", 1)) = 1
    /\ m_sessions[1] = <<"N", "O", "P", "G">>

----------------------------------------------------------------------------
(* The end of a session. *)

(* The client connected again after the entry at k, before the entry at j. *)
ConnectedBetween(c, k, j) ==
    \E i \in Idx("connect") : k < i /\ i < j /\ log[i].client = c

(* C30: a response that is not deferred is sent; when the send fails or    *)
(* close_after_response is on the client is dropped: it has no session     *)
(* afterwards, its connection is closed, the sink is notified through the  *)
(* client-close callback, and no line that was left in its buffer is       *)
(* dispatched.                                                             *)
C30_DropAfterResponse ==
    /\ \A r \in Idx("resp") :
           (log[r].src = "server" /\ ~log[r].ok) =>
               /\ r < Len(log)
               /\ log[r + 1].ev = "send" /\ log[r + 1].src = "server"
               /\ log[r + 1].client = log[r].client
               /\ log[r + 1].arg = log[r].arg
    /\ \A k \in Idx("send") :
           (log[k].src = "server" /\ (~log[k].ok \/ m_close_after_response)) =>
               LET c == log[k].client
               IN /\ k < Len(log)
                  /\ log[k + 1].ev = "drop" /\ log[k + 1].client = c /\ ~log[k + 1].first
                  /\ \E x \in Idx("close") :
                         /\ x > k + 1 /\ SameCall(k, x)
                         /\ log[x].src = "cancel" /\ log[x].client = c
                  /\ \A j \in Idx("line") :
                         (j > k /\ log[j].client = c) => ConnectedBetween(c, k, j)
                  /\ ~ConnectedBetween(c, k, Len(log) + 1) =>
                         c \notin DOMAIN m_sessions /\ c \notin m_clients

(* Client 1 sent NOP and GET in one Data event and the reply to NOP could  *)
(* not be sent: the client was dropped and GET was never dispatched.       *)
C30_Witness ==
    /\ ArgsOf("data", 1) = <<<<"N", "O", "P", "\n", "G", "E", "T", "\n">>>>
    /\ ArgsOf("line", 1) = <<<<"N", "O", "P">>>>
    /\ \E k \in Idx("send") : log[k].src = "server" /\ ~log[k].ok /\ log[k].client = 1
    /\ ~m_close_after_response
    /\ 1 \notin DOMAIN m_sessions

----------------------------------------------------------------------------
(* The TYPE line that holds one quoted string. *)
QuotedLine(text) == <<"T", "Y", "P", "E", " ">> \o Quoted(text)

(* The plan the request queued by the call of line entry l was made of. *)
ExecOfLine(l) ==
    {e \in Idx("exec") : e > l /\ SameCall(l, e) /\ log[e].id # 0}

(* The places of the delay actions and of the typed characters of a plan:  *)
(* every character that has a key is typed by exactly one Press.           *)
DelaysOf(actions) == {d \in DOMAIN actions : is_delay_action(actions[d].kind)}

TypedOf(actions) == {k \in DOMAIN actions : actions[k].kind = "Press"}

(* C31: a quoted string compiled with macro_interkey_frames = m gets no    *)
(* delay action when m = 0; when m > 0 a string that yields n typed        *)
(* characters gets exactly n - 1 DelayFrames{m}, each between the key      *)
(* actions of two consecutive characters and none after the last one, also *)
(* when the string holds characters without a key, which are skipped.      *)
C31_DelaysBetweenCharacters ==
    \A l \in Idx("line") : \A text \in QuotedTexts :
        log[l].arg = QuotedLine(text) =>
            \A e \in ExecOfLine(l) :
                LET actions == log[e].arg
                    delays == DelaysOf(actions)
                IN /\ m_macro_interkey_frames = 0 => delays = {}
                   /\ m_macro_interkey_frames > 0 =>
                          /\ Cardinality(delays) = Cardinality(TypedOf(actions)) - 1
                          /\ \A d \in delays :
                                 /\ actions[d] = make_delay_frames_action(m_macro_interkey_frames)
                                 /\ 1 < d /\ d < Len(actions)
                                 /\ IsKeyAction(actions[d - 1])
                                 /\ IsKeyAction(actions[d + 1])

----------------------------------------------------------------------------
(* C32: every plan the TYPE compiler builds, and so every PendingRequest   *)
(* made from a TYPE command, holds only DelayMs actions with strictly      *)
(* positive milliseconds and DelayFrames actions with strictly positive    *)
(* frames, for every numeral of a ms / frames / frame token, zero and the  *)
(* numerals at or beyond the limits of the conversion included.            *)
C32_DelaysArePositive ==
    \A e \in Idx("exec") : \A k \in DOMAIN log[e].arg :
        LET action == log[e].arg[k]
        IN /\ action.kind = "DelayMs" => action.delay_ms > 0
           /\ action.kind = "DelayFrames" => action.frames > 0

----------------------------------------------------------------------------
(* The plan the token loop of HandleTypeCommand has compiled from a TYPE   *)
(* line when the post-pass begins.                                         *)
CompiledTokens(line) ==
    CompileTokens([actions |-> <<>>, request_frame |-> FALSE],
                  tokenize_type_arguments(trim(SubSeq(line, find(line, " ") + 1, Len(line)))),
                  m_macro_interkey_frames)

(* C33: after the post-pass a plan with request_frame set and at least one *)
(* action ends with a delay action: when the last compiled action is a key *)
(* action exactly one DelayFrames{max(1, macro_interkey_frames)} is        *)
(* appended, when it is a DelayMs or a DelayFrames nothing is appended,    *)
(* and a plan without request_frame is never extended.                     *)
C33_TrailingDelay ==
    \A l \in Idx("line") : \A e \in ExecOfLine(l) :
        LET compiled == CompiledTokens(log[l].arg)
            last == compiled.actions[Len(compiled.actions)]
            actions == log[e].arg
        IN /\ compiled.actions # <<>>
           /\ compiled.request_frame => is_delay_action(actions[Len(actions)].kind)
           /\ compiled.request_frame /\ IsKeyAction(last) =>
                  actions = Append(compiled.actions,
                                   make_delay_frames_action(Max(1, m_macro_interkey_frames)))
           /\ compiled.request_frame /\ is_delay_action(last.kind) => actions = compiled.actions
           /\ ~compiled.request_frame => actions = compiled.actions

(* With two interkey frames, a plan that asks for a frame and ends in a    *)
(* key action was compiled and queued with one more action.                *)
C33_Witness ==
    /\ m_macro_interkey_frames = 2
    /\ \E l \in Idx("line") : \E e \in ExecOfLine(l) :
           LET compiled == CompiledTokens(log[l].arg)
           IN /\ compiled.request_frame
              /\ IsKeyAction(compiled.actions[Len(compiled.actions)])
              /\ Len(log[e].arg) = Len(compiled.actions) + 1

----------------------------------------------------------------------------
(* The TYPE arguments that are one quoted string, as the log holds them. *)
QuotedArguments ==
    {Text(argument) : argument \in
        {a \in TypedArguments : Head(a) = "\"" /\ a[Len(a)] = "\"" /\ Occurrences(a, "\"") = 2}}

(* The keyboard commands and the responses of the call that began at t. *)
CommandsOf(t) == {k \in Idx("kbd") : k > t /\ SameCall(t, k)}

ResponsesOf(t) == {k \in Idx("kbdret") : k > t /\ SameCall(t, k)}

(* C38: executing the actions compiled from a TYPE quoted string against   *)
(* the keyboard state leaves the held set exactly as it was before the     *)
(* command, for every starting held set: the Down Shift / Up Shift around  *)
(* a shifted character neither releases nor leaves held a key that was put *)
(* down earlier, Shift held by an earlier ShiftDown included.              *)
C38_QuotedStringKeepsHeld ==
    \A t \in Idx("type") :
        log[t].arg \in QuotedArguments /\ CommandsOf(t) # {} /\ ResponsesOf(t) # {} =>
            log[SetMax(ResponsesOf(t))].arg.held = log[SetMin(CommandsOf(t))].arg.held

----------------------------------------------------------------------------
(* The events delivered to the key injector for one key before entry i. *)
InjectedBefore(i) ==
    {j \in Idx("inject") : j < i /\ log[j].arg[1] = log[i].arg[1]}

(* C39: for every key code, the events the keyboard state model delivers   *)
(* to the key injector alternate strictly between pressed = true and       *)
(* pressed = false, beginning with pressed = true, over every sequence of  *)
(* PRESS, DOWN, UP and RESET (a successful PRESS gives press, then         *)
(* release): no key is pressed twice without a release in between or       *)
(* released without a press before.                                        *)
C39_PressReleaseAlternate ==
    \A i \in Idx("inject") :
        IF InjectedBefore(i) = {} THEN log[i].arg[2]
        ELSE log[i].arg[2] # log[SetMax(InjectedBefore(i))].arg[2]

(* A key was put down by DOWN, released by RESET and pressed by PRESS      *)
(* afterwards.                                                             *)
C39_Witness ==
    \E c1, c2, c3 \in Idx("kbd") :
        /\ c1 < c2 /\ c2 < c3
        /\ KbdVerb(c1) = "DOWN" /\ KbdSucceeded(c1)
        /\ KbdVerb(c2) = "RESET"
        /\ KbdVerb(c3) = "PRESS" /\ KbdSucceeded(c3)
        /\ \E i, j, k \in Idx("inject") :
               /\ c1 < i /\ i < c2 /\ c2 < j /\ j < c3 /\ c3 < k
               /\ log[i].arg[1] = log[j].arg[1] /\ log[j].arg[1] = log[k].arg[1]

----------------------------------------------------------------------------
(* The head request is blocked on a delay at the beginning of a Poll: its  *)
(* frame countdown stays positive after the decrement of this Poll, or its *)
(* deadline is later than the clock reading of this Poll.                  *)
HeadWaits ==
    /\ m_pending # <<>>
    /\ \/ Head(m_pending).frames_remaining > 1
       \/ Head(m_pending).has_resume /\ now < Head(m_pending).resume_at

(* A call of Poll that changed the queue. *)
PollStep == polls' # polls

(* C34: while the head request is blocked on a delay no other request is   *)
(* considered: a Poll in which the head request is still waiting makes no  *)
(* keyboard call, frame capture, send, close or completion callback for    *)
(* any queued request and changes no other request, only the countdown of  *)
(* the head; and the deadline a DelayMs{d} processed at clock time t sets  *)
(* is t + d, before which nothing is dispatched.                           *)
C34_BlockedHeadBlocksAll ==
    [][PollStep =>
          /\ HeadWaits =>
                 /\ log' = log
                 /\ <<m_requests', m_success', m_failures', m_sessions'>>
                        = <<m_requests, m_success, m_failures, m_sessions>>
                 /\ Len(m_pending') = Len(m_pending)
                 /\ \A i \in 2..Len(m_pending) : m_pending'[i] = m_pending[i]
                 /\ Head(m_pending') = [Head(m_pending) EXCEPT
                                           !.frames_remaining = Max(@ - 1, 0)]
          /\ \A i \in DOMAIN m_pending' :
                 LET request == m_pending'[i]
                 IN request.has_resume =>
                        /\ i = 1
                        /\ request.next_action > 0
                        /\ request.actions[request.next_action].kind = "DelayMs"
                        /\ request.resume_at =
                               IF /\ Head(m_pending).id = request.id
                                  /\ Head(m_pending).next_action = request.next_action
                               THEN Head(m_pending).resume_at
                               ELSE now + request.actions[request.next_action].delay_ms
      ]_vars

(* After a keyboard call for the head request a Poll has counted one of    *)
(* its two spacing frames down and left it waiting, and another request    *)
(* is queued behind it.                                                    *)
C34_Witness ==
    /\ Len(m_pending) = 2
    /\ Head(m_pending).frames_remaining = 1
    /\ m_token_frame_spacing = 2
    /\ Head(m_pending).next_action < Len(Head(m_pending).actions)
    /\ \E k \in Idx("key") : log[k].id = Head(m_pending).id

----------------------------------------------------------------------------
(* Poll calls by number.  A polled entry closes the entries of one Poll.   *)
PollNumber(q) == Cardinality({r \in Idx("polled") : r <= q})

(* Poll q took action k of request id: the request had not got to it       *)
(* before the Poll and was past it, or gone, after it.                     *)
ProcessedIn(q, id, k) ==
    /\ id \in DOMAIN log[q].arg.before
    /\ log[q].arg.before[id] < k
    /\ id \in DOMAIN log[q].arg.after => log[q].arg.after[id] >= k

(* Poll q completed request id. *)
CompletedIn(q, id) ==
    id \in DOMAIN log[q].arg.before /\ id \notin DOMAIN log[q].arg.after

(* C35: with inter_token_frame_delay = s, when a key action of a request   *)
(* is dispatched in Poll number p and the next action of the plan is a key *)
(* action too, that key action is dispatched in Poll number p + max(1, s)  *)
(* and not earlier; when the next action of the plan is a delay action, no *)
(* spacing is inserted: the delay is taken up in Poll p + 1 and only it    *)
(* applies.                                                                *)
C35_SpacingBetweenKeys ==
    \A q \in Idx("polled") : \A id \in DOMAIN log[q].arg.before :
        \A k \in 1..(Len(PlanOf(id)) - 1) :
            ProcessedIn(q, id, k) /\ IsKeyAction(PlanOf(id)[k]) =>
                /\ ~ProcessedIn(q, id, k + 1)
                /\ \A r \in Idx("polled") :
                       r > q =>
                           (ProcessedIn(r, id, k + 1) <=>
                                PollNumber(r) = PollNumber(q)
                                    + (IF IsKeyAction(PlanOf(id)[k + 1])
                                       THEN Max(1, m_token_frame_spacing) ELSE 1))

(* With a spacing of two frames the second of two consecutive keys was     *)
(* sent two Polls after the first.                                         *)
C35_Witness ==
    /\ m_token_frame_spacing = 2
    /\ \E q, r \in Idx("polled") : \E id \in DOMAIN log[q].arg.before :
           \E k \in 1..(Len(PlanOf(id)) - 1) :
               /\ IsKeyAction(PlanOf(id)[k]) /\ IsKeyAction(PlanOf(id)[k + 1])
               /\ ProcessedIn(q, id, k) /\ ProcessedIn(r, id, k + 1)
               /\ PollNumber(r) = PollNumber(q) + 2

----------------------------------------------------------------------------
(* C36: one frame of delay is one poll tick: after a DelayFrames{N} action *)
(* (N >= 1) of the head request is processed in Poll number p, the next    *)
(* action of the request, or its completion when no action remains, is     *)
(* processed in Poll number p + N, neither earlier nor later.              *)
C36_FrameDelayIsPollTicks ==
    \A q \in Idx("polled") : \A id \in DOMAIN log[q].arg.before :
        \A k \in 1..Len(PlanOf(id)) :
            /\ ProcessedIn(q, id, k)
            /\ PlanOf(id)[k].kind = "DelayFrames"
            /\ PlanOf(id)[k].frames >= 1
            => \A r \in Idx("polled") :
                   r >= q =>
                       ((IF k < Len(PlanOf(id)) THEN ProcessedIn(r, id, k + 1)
                                                ELSE CompletedIn(r, id))
                            <=> PollNumber(r) = PollNumber(q) + PlanOf(id)[k].frames)

----------------------------------------------------------------------------
(* The places where the server side closed the connection of a client:     *)
(* Drop, and Close called through the close hook of the sink.              *)
ServerCloses == Idx("drop") \cup Idx("close")

(* The requests a client had queued before entry k. *)
QueuedBefore(k) ==
    {log[e].id : e \in {x \in Idx("exec") : x < k /\ log[x].client = log[k].client}} \ {0}

(* C37: whenever the connection of a client is closed from the server side *)
(* by any path (Drop, Close through the close hook of the sink after a     *)
(* deferred reply, Stop), no request with that client as origin remains in *)
(* the queue of the sink afterwards, so no key action of that client is    *)
(* injected and no send to it is attempted once its connection is gone.    *)
C37_ClosedClientLeavesQueue ==
    \A k \in ServerCloses :
        /\ \A i \in DOMAIN m_pending : m_pending[i].id \notin QueuedBefore(k)
        /\ \A j \in Idx("key") \cup Idx("send") :
               j > k /\ log[j].src = "poll" => log[j].id \notin QueuedBefore(k)

----------------------------------------------------------------------------
(* The ids of the requests in the queue. *)
QueuedIds == {m_pending[i].id : i \in DOMAIN m_pending}

(* C40: every Poll call returns, and while Poll keeps being called and the *)
(* clock advances every queued request is eventually removed; when no new  *)
(* request is submitted the queue becomes empty, for every queue content,  *)
(* plans with zero-length delays and the final-frame wait included.        *)
C40_QueueDrains ==
    /\ \A id \in RequestIds : (id \in QueuedIds) ~> (id \notin QueuedIds)
    /\ \A n \in 0..MaxRequests :
           (Len(ExecEntries) = n /\ m_pending # <<>>)
               ~> (m_pending = <<>> \/ Len(ExecEntries) > n)

(* Two requests were queued, one with a zero-length delay and one that     *)
(* waited for its final frame under a spacing of two, and Poll has         *)
(* completed both and emptied the queue.                                   *)
C40_Witness ==
    /\ m_pending = <<>>
    /\ m_token_frame_spacing = 2
    /\ \A id \in RequestIds : \E d \in Idx("done") : log[d].id = id
    /\ \E e \in Idx("exec") : \E k \in DOMAIN log[e].arg :
           log[e].arg[k] = make_delay_frames_action(0)
    /\ \E e \in Idx("exec") : \E k \in DOMAIN log[e].arg : log[e].arg[k].kind = "Press"

====
